---- MODULE Spec2Model ----
(***************************************************************************)
(* Model of the transcoder-cluster dispatch fabric:                        *)
(*   - Controller.dispatch_tasks and its worker_loop threads               *)
(*     (transcoder_cluster/core/controller.py),                            *)
(*   - Controller._submit_with_progress / submit_task / download_result /  *)
(*     _validate_output_file,                                              *)
(*   - the Worker's HTTP server and WorkerHandler                          *)
(*     (transcoder_cluster/core/worker.py).                                *)
(* Python's None is the string "none" (workers, errors) or 0 (task ids).   *)
(***************************************************************************)
EXTENDS Integers, Sequences, FiniteSets, TLC

\* ---------------------------------------------------------------- bounds
NumTasks == 2
MaxAttemptsBound == 2
MaxTotalAttempts == 3
MaxBacklog == 2
MaxOrphans == 1
MaxStale == 1
MaxDatagrams == 3
MaxBroadcasts == 2
MaxHeartbeats == 1
NumCreators == 3
MaxCreates == 2
MaxIndex == 3
MaxBuilds == 2
MaxRequests == 3
MaxPops == 3
MaxPolls == 2
MaxSeconds == 2

\* ------------------------------------------------------------- constants
Workers == {"A", "B"}
TaskIds == 1..NumTasks
NoTask == 0
NoWorker == "none"
NoError == "none"

\* Worker lists handed to the GUI's scheduler start: the ips of the discovered
\* node records, in record order (one ip may appear under two hostnames).
DiscoveredIpLists ==
    {<<>>, <<"A">>, <<"A", "B">>, <<"A", "A">>, <<"A", "B", "A">>}

\* Error messages, by the source line that produces them (the three Chinese
\* literals of controller.py are written here by their meaning).
MsgException == "str(e)"                       \* controller.py 287, 495
MsgFFmpegCode == "FFmpeg returned code N"      \* worker.py 181
MsgHandlerError == "handler exception"         \* worker.py 112, 192
MsgNoOutputPath == "no output path returned"   \* controller.py 484
MsgDownloadFailed == "download failed"         \* controller.py 488
MsgMissing == "output file does not exist"     \* controller.py 503
MsgEmpty == "output file size is 0"            \* controller.py 511
MsgUnknown == "Unknown error"                  \* controller.py 279, 423

VARIABLES
    tasks,          \* TaskIds -> Task record (controller.py Task dataclass)
    worker_ips,     \* the worker list given to dispatch_tasks
    pending_tasks,  \* dispatch_tasks: the shared pending queue
    result,         \* dispatch_tasks: {"total", "completed", "failed"}
    stop_event,     \* threading.Event handed to dispatch_tasks
    phase,          \* "created" | "running" | "returned"
    loops,          \* one worker_loop thread per entry of worker_ips
    files,          \* Controller side: state of each task.output_file
    pollers,        \* the poll_progress threads that are alive
    attempt_log,    \* history: per task, the worker and outcome of each attempt
    srv,            \* Worker side: per ip, execution slot + HTTP server
    discovered_nodes, \* discovery.py DiscoveryService.discovered_nodes
    node_discovered_calls, \* history: arguments of the on_node_discovered calls
    listener,       \* DiscoveryService._listen_loop: "running" | "stopped"
    responder,      \* DiscoveryResponder._listen_loop: "running" | "stopped"
    responses,      \* datagrams the responder has sent, in order
    now,            \* datagrams received so far; the clock of last_seen
    last_rx,        \* history: the datagram received last, by whom, from whom
    net,            \* UDP datagrams sent and not yet delivered
    broadcasts,     \* number of broadcast_discovery calls made
    heartbeat,      \* HeartbeatService._heartbeat_loop: "running" | "stopped"
    heartbeats,     \* number of heartbeats sent
    task_counter,   \* Controller._task_counter
    created,        \* Controller.tasks as create_task fills it: the ids
    task_lock,      \* Controller._task_lock: the thread that holds it
    creators,       \* the threads that call create_task
    fs,             \* the output paths that exist in the input's directory
    last_output,    \* history: what build_output_path returned last
    build_calls,    \* history: number of build_output_path calls
    node_capabilities, \* gui/controller_app.py ControllerApp.node_capabilities
    started,        \* ControllerApp._start_transcode: what it did last
    wslot,          \* one Worker seen closely: WorkerHandler.status
    wreq,           \* the request its server thread is handling
    wproc,          \* its ffmpeg process: "none" | "running"
    wserver,        \* its HTTPServer: "serving" | "stopping" | "stopped"
    wlog,           \* history: the request answered last and the answer
    wcount,         \* history: number of requests answered
    popped,         \* history: the last pop_next_task call and what it returned
    polled,         \* history: the last /status answer a poller has read
    resolved,       \* the machine's addresses and what _get_local_subnet made of them
    loaded,         \* utils/config.py: environment, config file and the global config
    called_with,    \* history: the arguments of the dispatch_tasks call
    callback_fired  \* history: on_task_update / on_node_update was invoked

\* Variables of the parts of the system that the scheduler and the Worker's
\* HTTP server do not touch.
netv == <<net, broadcasts, heartbeat, heartbeats>>
createv == <<task_counter, created, task_lock, creators>>
pathv == <<fs, last_output, build_calls>>
gatev == <<node_capabilities, started>>
workerv == <<wslot, wreq, wproc, wserver, wlog, wcount>>
closev == <<polled, resolved, loaded>>
discv == <<discovered_nodes, node_discovered_calls, listener, responder,
           responses, now, last_rx>>
others == <<discovered_nodes, node_discovered_calls, listener, responder,
            responses, now, last_rx, netv, createv, pathv, gatev, workerv,
            popped, closev>>

\* The variables of a dispatch run and of the Workers' HTTP servers.
sched == <<tasks, worker_ips, pending_tasks, result, stop_event, phase, loops,
           files, pollers, attempt_log, srv, called_with, callback_fired>>

\* What the caller of dispatch_tasks sees of the call.  Every step of a
\* started run leaves it unchanged: callbacks have fired since the reset.
caller == <<called_with, callback_fired>>

vars == <<tasks, worker_ips, pending_tasks, result, stop_event, phase,
          loops, files, pollers, attempt_log, srv, others, caller>>

\* ------------------------------------------------------------ data model
\* controller.py Task dataclass: the field defaults of a freshly created task.
NewTask(m) ==
    [status |-> "pending", worker |-> NoWorker, progress |-> 0,
     error |-> NoError, attempts |-> 0, max_attempts |-> m,
     last_worker |-> NoWorker]

\* worker.py WorkerHandler.status: the class-level execution slot.
IdleSlot == [status |-> "idle", progress |-> 0]

\* One HTTP server per Worker ip: the slot, the listen backlog (connections
\* not yet accepted) and the requests whose handler is running.
NewServer == [slot |-> IdleSlot, backlog |-> <<>>, running |-> {}]

\* One worker_loop thread: its position, the task it holds and the
\* (ok, error_message) that _submit_with_progress returned to it.
NewLoop == [pc |-> "loop", task |-> NoTask, ok |-> FALSE, msg |-> NoError]

\* The percentages a stderr line of ffmpeg can produce (worker.py 152).
Percents == {50, 100}

\* gui/controller_app.py _get_discovered_worker_ips: first occurrences, in order.
get_discovered_worker_ips(ips) ==
    LET F[k \in 0..Len(ips)] ==
            IF k = 0 THEN <<>>
            ELSE IF \E j \in 1..Len(F[k - 1]) : F[k - 1][j] = ips[k]
                 THEN F[k - 1]
                 ELSE Append(F[k - 1], ips[k])
    IN F[Len(ips)]

\* ------------------------------------------------ discovery datagrams
\* A field that a JSON object does not have (dict.get returns None).
NoField == "<none>"

\* What a UDP datagram can hold, as far as _listen_loop tells them apart:
\* bytes that are not UTF-8, text that is not JSON, JSON that is not an
\* object, or an object with (or without) type, hostname and status.
MsgTypes == {"discovery", "discovery_response", "heartbeat", "task_complete",
             NoField}
Hostnames == {"h1", NoField}
Statuses == {"idle", NoField}
Datagrams ==
    {[kind |-> k, type |-> NoField, hostname |-> NoField, status |-> NoField] :
        k \in {"not_utf8", "not_json", "not_object"}}
    \cup [kind : {"object"}, type : MsgTypes, hostname : Hostnames,
          status : Statuses]

\* What reaches a responder: the Controller's broadcast {"type": "discovery"},
\* other Workers' heartbeats without the fields the responder never reads,
\* and anything malformed.
ResponderDatagrams ==
    {d \in Datagrams : d.hostname = NoField /\ d.status = NoField}

\* Sender addresses (ip, port) of the datagrams a responder receives.
Addrs == {[ip |-> "C", port |-> "p1"], [ip |-> "D", port |-> "p2"]}

\* The Worker whose responder is modelled, and its hostname.
ResponderIp == "A"
ResponderHost == "h1"

NoRx == [by |-> "nobody", d |-> NoField, from |-> NoField]

\* The host of the Controller, the well-known discovery port (config.py 21)
\* and the ports the system gives to a socket that was not bound.
ControllerIp == "C"
DiscoveryPort == "p55557"
EphemeralPorts == {"p1", "p2"}

\* What the body of a POST /task can be: a complete task; a complete task
\* followed by fewer bytes than Content-Length announces; a task cut in the
\* middle; bytes that are not JSON; JSON without video_file or ffmpeg_args.
Bodies == {"ok", "short_valid", "cut", "not_json", "no_fields"}

\* The server thread is between two requests.
NoReq == [kind |-> "none", pc |-> "none", body |-> "none", before |-> "none"]

\* Nothing has been answered yet.
NoLog ==
    [op |-> "none", code |-> 0, status |-> "none", output_file |-> FALSE,
     error |-> NoError, rc |-> "none", body |-> "none", before |-> "none"]

\* worker.py lines 44-48 and Worker.start_async: a Worker that serves and
\* has not been given a task.
WorkerIdle ==
    /\ wslot = IdleSlot
    /\ wreq = NoReq
    /\ wproc = "none"
    /\ wserver = "serving"
    /\ wlog = NoLog
    /\ wcount = 0

\* pop_next_task has not been called on its own.
NoPop == [by |-> NoWorker, task |-> NoTask, idx |-> 0, n |-> 0]

\* The times ffmpeg prints on stderr, in seconds, and the durations ffprobe
\* gives for the input: unknown (None, 0 here) or 2 seconds.
Seconds == 0..MaxSeconds
Durations == {0, 2}

\* What GET /status can answer: the statuses a slot is documented to take and
\* the "unknown" of get_worker_status line 325, with the slot's progress.
StatusAnswers ==
    [status : {"idle", "receiving", "uploading", "processing", "completed",
               "error", "stopped", "unknown"},
     progress : {0, 50, 99}]

\* No poller has read an answer on its own.
NoPoll == [task |-> NoTask, answer |-> IdleSlot, n |-> 0]

\* Addresses as their four octets; the empty tuple is a lookup that raised.
\* One address of each range _get_local_subnet tells apart, and a public one.
LocalIps ==
    {<<>>, <<127, 0, 0, 1>>, <<198, 18, 0, 1>>, <<198, 19, 0, 1>>,
     <<192, 168, 0, 5>>, <<10, 0, 0, 5>>, <<172, 16, 0, 5>>, <<172, 32, 0, 5>>,
     <<8, 8, 4, 4>>}

\* _get_local_subnet has not been called: no addresses, no prefix.
NoResolve ==
    [udp |-> <<>>, netifaces |-> FALSE, ifaces |-> <<>>, host |-> <<>>,
     called |-> FALSE, prefix |-> <<>>]

\* utils/config.py: three of the settings, an integer port, a string and the
\* one whose default is None, with the value each source gives them.
ConfigKeys == {"worker_port", "log_level", "log_file"}

\* Config dataclass lines 17-34: the built-in defaults.
ConfigDefault(k) ==
    CASE k = "worker_port" -> 9000
      [] k = "log_level" -> "INFO"
      [] k = "log_file" -> "None"

\* What from_env reads for a variable that is set: int("9001"), "DEBUG", a path.
ConfigEnvValue(k) ==
    CASE k = "worker_port" -> 9001
      [] k = "log_level" -> "DEBUG"
      [] k = "log_file" -> "env.log"

\* What the JSON file holds for a key it sets.
ConfigFileValue(k) ==
    CASE k = "worker_port" -> 9003
      [] k = "log_level" -> "ERROR"
      [] k = "log_file" -> "file.log"

\* Config.from_env lines 36-50: os.getenv with the default as fallback.
from_env(env) ==
    [k \in ConfigKeys |-> IF k \in env THEN ConfigEnvValue(k) ELSE ConfigDefault(k)]

\* Config.from_file lines 52-57: cls(**data), so a key the file leaves out
\* takes the dataclass default.
from_file(keys) ==
    [k \in ConfigKeys |-> IF k \in keys THEN ConfigFileValue(k) ELSE ConfigDefault(k)]

\* load_config lines 86-98: the environment first, then every attribute of
\* the file's Config that is not None is copied over it.
load_config(env, file) ==
    IF file.exists
    THEN [k \in ConfigKeys |->
            IF k = "log_file" /\ from_file(file.keys)[k] = "None"
            THEN from_env(env)[k]
            ELSE from_file(file.keys)[k]]
    ELSE from_env(env)

\* Line 70: the module is imported in an empty environment; load_config has
\* not been called.
NoLoad ==
    [env |-> {}, file |-> [exists |-> FALSE, keys |-> {}], called |-> FALSE,
     config |-> from_env({})]

\* The parts looked at on their own are untouched.
CloseIdle ==
    /\ polled = NoPoll
    /\ resolved = NoResolve
    /\ loaded = NoLoad

\* gui/controller_app.py line 34.
CODEC_OPTIONS == {"libx265", "libx264", "hevc_nvenc", "h264_nvenc"}

\* `"_nvenc" in codec`, over the codecs that can be selected.
IsNvenc(codec) == codec \in {"hevc_nvenc", "h264_nvenc"}

\* The encoder lists a capability probe can report.
EncoderSets ==
    {{}, {"libx265"}, {"libx265", "h264_nvenc"},
     {"libx265", "h264_nvenc", "hevc_nvenc"}}

\* The capability descriptor of a Worker whose ffmpeg lists the encoders enc.
\* The /capabilities handler is not part of the source tree; the descriptor
\* is the documented one (nvenc_supported derived from the encoders).
\* controller.py 334-340 gives the same record with no encoders when the
\* probe fails.
Capabilities(enc) ==
    [encoders |-> enc,
     nvenc_supported |-> ("h264_nvenc" \in enc \/ "hevc_nvenc" \in enc)]

\* _start_transcode has not dispatched anything.
NotStarted ==
    [running |-> FALSE, outcome |-> "none", codec |-> "libx265",
     target |-> <<>>]

\* ControllerApp.__init__ lines 48-50: no capability is known.
GateIdle ==
    /\ node_capabilities = <<>>
    /\ started = NotStarted

\* An output path of build_output_path: directory/name + suffix + ext for
\* index 1, directory/name + suffix + "_" + index + ext for index >= 2.
OutputPath(name, index) == [name |-> name, index |-> index]
NoPath == [name |-> "<none>", index |-> 0]
InputNames == {"clip", "sample"}

\* The output paths that something may have created already.
CandidatePaths ==
    {OutputPath(n, k) : n \in InputNames, k \in 1..MaxIndex}

\* build_output_path has not been called.
PathIdle ==
    /\ fs = {}
    /\ last_output = NoPath
    /\ build_calls = 0

\* The threads that call create_task; NoThread holds the lock when it is free.
Creators == 1..NumCreators
NoThread == 0

\* Controller.__init__ lines 62-64, and no create_task call under way.
CreateIdle ==
    /\ task_counter = 0
    /\ created = <<>>
    /\ task_lock = NoThread
    /\ creators = [c \in Creators |-> [pc |-> "idle", id |-> 0, done |-> 0]]

\* No datagram is in flight and no Worker heartbeater runs.
NetIdle ==
    /\ net = {}
    /\ broadcasts = 0
    /\ heartbeat = "stopped"
    /\ heartbeats = 0

\* The arguments of a dispatch_tasks call: number of tasks and worker list.
NoCall == [made |-> FALSE, n |-> 0, ips |-> <<>>]
Call(n, ips) == [made |-> TRUE, n |-> n, ips |-> ips]

LoopIds == DOMAIN loops
Ip(i) == worker_ips[i]
Dispatched == 1..result.total

\* A loop holds its task from the pop until the attempt is settled.
Holding(i) == loops[i].pc \notin {"loop", "checked", "exit"}

\* The attempts a batch can make at most: the sum of max_attempts.
RECURSIVE SumAttempts(_, _)
SumAttempts(f, n) == IF n = 0 THEN 0 ELSE f[n].max_attempts + SumAttempts(f, n - 1)

\* -------------------------------------------------------------- Init
Init ==
    /\ tasks \in {f \in [TaskIds -> [status : {"pending"}, worker : {NoWorker},
                                     progress : {0}, error : {NoError},
                                     attempts : {0},
                                     max_attempts : 1..MaxAttemptsBound,
                                     last_worker : {NoWorker}]] :
                    /\ \A t \in TaskIds : f[t] = NewTask(f[t].max_attempts)
                    /\ SumAttempts(f, NumTasks) <= MaxTotalAttempts}
    /\ worker_ips = <<>>
    /\ pending_tasks = <<>>
    /\ result = [total |-> 0, completed |-> 0, failed |-> 0]
    /\ stop_event = FALSE
    /\ phase = "created"
    /\ loops = <<>>
    /\ files = [t \in TaskIds |-> "missing"]
    /\ pollers = {}
    /\ attempt_log = [t \in TaskIds |-> <<>>]
    /\ srv = [w \in Workers |-> NewServer]
    /\ discovered_nodes = <<>>
    /\ node_discovered_calls = <<>>
    /\ listener = "running"
    /\ responder = "running"
    /\ responses = <<>>
    /\ now = 0
    /\ last_rx = NoRx
    /\ NetIdle
    /\ CreateIdle
    /\ PathIdle
    /\ GateIdle
    /\ WorkerIdle
    /\ popped = NoPop
    /\ CloseIdle
    /\ called_with = NoCall
    /\ callback_fired = FALSE

\* ------------------------------------------------- Controller.dispatch_tasks
\* dispatch_tasks lines 363-370: the reset of one task.
ResetTask(tk) ==
    [tk EXCEPT !.status = "pending", !.progress = 0, !.error = NoError,
               !.worker = NoWorker, !.attempts = 0]

\* dispatch_tasks lines 358-377 and 437-438: reset every task, build the queue
\* and the result, then start one worker_loop per entry of worker_ips.
dispatch_tasks(n, ips) ==
    /\ phase = "created"
    /\ n >= 1 /\ Len(ips) >= 1
    /\ tasks' = [t \in TaskIds |-> IF t <= n THEN ResetTask(tasks[t]) ELSE tasks[t]]
    /\ worker_ips' = ips
    /\ pending_tasks' = [k \in 1..n |-> k]
    /\ result' = [total |-> n, completed |-> 0, failed |-> 0]
    /\ loops' = [i \in 1..Len(ips) |-> NewLoop]
    /\ phase' = "running"
    /\ attempt_log' = [t \in TaskIds |-> <<>>]
    /\ called_with' = Call(n, ips)
    /\ callback_fired' = TRUE
    /\ UNCHANGED <<stop_event, files, pollers, srv, others>>

\* Mutant: no early return for an empty task list; the call goes on to the
\* worker check and, with workers, starts their loops on an empty queue.
dispatch_tasks_empty_late(ips) ==
    /\ phase = "created"
    /\ called_with' = Call(0, ips)
    /\ worker_ips' = ips
    /\ loops' = [i \in 1..Len(ips) |-> NewLoop]
    /\ phase' = IF ips = <<>> THEN "rejected" ELSE "running"
    /\ UNCHANGED <<tasks, pending_tasks, result, stop_event, files, pollers,
                   attempt_log, srv, others, callback_fired>>

\* dispatch_tasks lines 358-359: an empty task list returns the zero counts.
dispatch_tasks_empty(ips) ==
    /\ phase = "created"
    /\ called_with' = Call(0, ips)
    /\ result' = [total |-> 0, completed |-> 0, failed |-> 0]
    /\ phase' = "returned"
    /\ UNCHANGED <<tasks, worker_ips, pending_tasks, stop_event, loops, files,
                   pollers, attempt_log, srv, others, callback_fired>>

\* Mutant: the worker check is missing and the call returns counts for a run
\* that never ran, after the reset of the tasks.
dispatch_tasks_no_workers_ignored(n) ==
    /\ phase = "created"
    /\ n >= 1
    /\ called_with' = Call(n, <<>>)
    /\ tasks' = [t \in TaskIds |-> IF t <= n THEN ResetTask(tasks[t]) ELSE tasks[t]]
    /\ callback_fired' = TRUE
    /\ result' = [total |-> n, completed |-> 0, failed |-> 0]
    /\ phase' = "returned"
    /\ UNCHANGED <<worker_ips, pending_tasks, stop_event, loops, files,
                   pollers, attempt_log, srv, others>>

\* dispatch_tasks lines 360-361: tasks but no worker: RuntimeError, raised
\* before anything is reset or started.
dispatch_tasks_no_workers(n) ==
    /\ phase = "created"
    /\ n >= 1
    /\ called_with' = Call(n, <<>>)
    /\ phase' = "rejected"
    /\ UNCHANGED <<tasks, worker_ips, pending_tasks, result, stop_event, loops,
                   files, pollers, attempt_log, srv, others, callback_fired>>

\* gui/controller_app.py close(): the stop event is set while a batch runs.
set_stop ==
    /\ phase = "running"
    /\ ~stop_event
    /\ stop_event' = TRUE
    /\ UNCHANGED <<tasks, worker_ips, pending_tasks, result, phase, loops,
                   files, pollers, attempt_log, srv, others, caller>>

\* Mutant: the head is popped whoever ran it last.
pop_index_head(q, worker_ip) == 1

\* pop_next_task lines 380-388: the index it pops from a non-empty queue.
pop_index(q, worker_ip) ==
    IF Len(worker_ips) > 1
       /\ \E idx \in 1..Len(q) : tasks[q[idx]].last_worker # worker_ip
    THEN CHOOSE idx \in 1..Len(q) :
            /\ tasks[q[idx]].last_worker # worker_ip
            /\ \A j \in 1..(idx - 1) : tasks[q[j]].last_worker = worker_ip
    ELSE 1

\* Mutant: the popped task stays in the queue.
RemoveAt_keep(q, idx) == q

\* pending_tasks.pop(idx), lines 387-388: the queue without its idx-th task.
RemoveAt(q, idx) == [k \in 1..(Len(q) - 1) |-> IF k < idx THEN q[k] ELSE q[k + 1]]

\* Mutant: the failed task is not put back.
push_retry_task_lost(q, t) == q

\* push_retry_task lines 390-392.
push_retry_task(q, t) == Append(q, t)

\* Mutant: the loop condition does not read the stop event.
worker_loop_check_nostop(i) ==
    /\ phase = "running"
    /\ loops[i].pc = "loop"
    /\ loops' = [loops EXCEPT ![i].pc = "checked"]
    /\ UNCHANGED <<tasks, worker_ips, pending_tasks, result, stop_event, phase,
                   files, pollers, attempt_log, srv, others, caller>>

\* worker_loop line 395: an iteration begins by reading the stop event; the
\* pop of line 396 is a later step, so a stop request can come in between.
worker_loop_check(i) ==
    /\ phase = "running"
    /\ loops[i].pc = "loop"
    /\ ~stop_event
    /\ loops' = [loops EXCEPT ![i].pc = "checked"]
    /\ UNCHANGED <<tasks, worker_ips, pending_tasks, result, stop_event, phase,
                   files, pollers, attempt_log, srv, others, caller>>

\* Mutant: a loop that is about to pop ends whatever the queue holds.
worker_loop_exit_any(i) ==
    /\ phase = "running"
    /\ loops[i].pc \in {"loop", "checked"}
    /\ loops[i].pc = "loop" => stop_event
    /\ loops' = [loops EXCEPT ![i].pc = "exit"]
    /\ UNCHANGED <<tasks, worker_ips, pending_tasks, result, stop_event, phase,
                   files, pollers, attempt_log, srv, others, caller>>

\* worker_loop lines 395-398: the loop ends when it reads the stop event set,
\* or when pop_next_task finds the queue empty.
worker_loop_exit(i) ==
    /\ phase = "running"
    /\ \/ loops[i].pc = "loop" /\ stop_event
       \/ loops[i].pc = "checked" /\ pending_tasks = <<>>
    /\ loops' = [loops EXCEPT ![i].pc = "exit"]
    /\ UNCHANGED <<tasks, worker_ips, pending_tasks, result, stop_event, phase,
                   files, pollers, attempt_log, srv, others, caller>>

\* ------------------------------------------------------ HTTP plumbing
\* A request as it sits in a Worker's listen backlog.  att is the attempt
\* of the task that sent it; busy records whether the execution slot was
\* receiving or processing when the request arrived.
Request(i, t, att, busy) == [loop |-> i, task |-> t, att |-> att, busy |-> busy]

SlotBusy(w) == srv[w].slot.status \in {"receiving", "processing"}

\* The loop that sent r still waits for its response: it has not given up
\* on the POST (timeout, broken connection).
Waiting(r) ==
    /\ r.loop \in DOMAIN loops
    /\ loops[r.loop].pc = "posted"
    /\ loops[r.loop].task = r.task
    /\ tasks[r.task].attempts = r.att

\* submit_task lines 285-290: the task is marked "error" when anything raises.
MarkError(tk, ip) ==
    [tk EXCEPT !.worker = ip, !.last_worker = ip, !.status = "error",
               !.error = MsgException]

\* _submit_with_progress lines 454-475: a poll_progress thread for the attempt.
NewPoller(i, t) == [loop |-> i, task |-> t, stopped |-> FALSE]

\* worker_loop lines 396-406, _submit_with_progress lines 474-478 and
\* submit_task lines 243-268 and 285-290: pop the next task, assign it to this
\* worker, start the poller and POST the task to the Worker.  With sent false
\* the POST raises before the request leaves (unreadable input file, refused
\* connection) and _submit_with_progress returns (False, str(e)).
worker_loop_pop(i, sent) ==
    /\ phase = "running"
    /\ loops[i].pc = "checked"
    /\ pending_tasks # <<>>
    /\ sent => Len(srv[Ip(i)].backlog) < MaxBacklog
    /\ LET idx == pop_index(pending_tasks, Ip(i))
           t == pending_tasks[idx]
           assigned == [tasks[t] EXCEPT !.worker = Ip(i),
                                        !.last_worker = Ip(i),
                                        !.attempts = @ + 1,
                                        !.error = NoError,
                                        !.status = "uploading"]
       IN /\ pending_tasks' = RemoveAt(pending_tasks, idx)
          /\ attempt_log' = [attempt_log EXCEPT ![t] =
                               Append(@, [worker |-> Ip(i), outcome |-> "open"])]
          /\ IF sent
             THEN /\ tasks' = [tasks EXCEPT ![t] = assigned]
                  /\ loops' = [loops EXCEPT ![i] =
                                 [NewLoop EXCEPT !.pc = "posted", !.task = t]]
                  /\ srv' = [srv EXCEPT ![Ip(i)].backlog =
                               Append(@, Request(i, t, assigned.attempts, SlotBusy(Ip(i))))]
                  /\ pollers' = pollers \cup {NewPoller(i, t)}
             ELSE /\ tasks' = [tasks EXCEPT ![t] = MarkError(assigned, Ip(i))]
                  /\ loops' = [loops EXCEPT ![i] =
                                 [NewLoop EXCEPT !.pc = "settle", !.task = t,
                                                 !.msg = MsgException]]
                  /\ UNCHANGED <<srv, pollers>>
    /\ UNCHANGED <<worker_ips, result, stop_event, phase, files, others, caller>>

\* _submit_with_progress lines 496-498: poll_stop.set() and join(timeout=1).
\* A poller that is inside get_worker_status when the join times out stays
\* alive, stopped, for one more answer (keep); otherwise it has ended.
StopPoller(i, t, keep) ==
    IF keep /\ Cardinality({p \in pollers : p.stopped}) < MaxStale
    THEN (pollers \ {NewPoller(i, t)}) \cup
         {[NewPoller(i, t) EXCEPT !.stopped = TRUE]}
    ELSE pollers \ {NewPoller(i, t)}

\* The requests a Worker holds (backlog or running) whose sender gave up.
Held(w) == {srv[w].backlog[k] : k \in 1..Len(srv[w].backlog)} \cup srv[w].running
Orphans == UNION {{r \in Held(w) : ~Waiting(r)} : w \in Workers}

\* submit_task lines 266-268 and 285-290: the POST times out or the connection
\* breaks while the Worker holds the request; the request stays with the Worker.
submit_task_raise(i, keep) ==
    /\ loops[i].pc = "posted"
    /\ Cardinality(Orphans) < MaxOrphans
    /\ tasks' = [tasks EXCEPT ![loops[i].task] = MarkError(@, Ip(i))]
    /\ loops' = [loops EXCEPT ![i].pc = "settle", ![i].ok = FALSE,
                              ![i].msg = MsgException]
    /\ pollers' = StopPoller(i, loops[i].task, keep)
    /\ UNCHANGED <<worker_ips, pending_tasks, result, stop_event, phase, files,
                   attempt_log, srv, others, caller>>

\* submit_task lines 270-283 and _submit_with_progress lines 478-484: the
\* Controller reads the Worker's answer to its POST.  resp is the JSON body.
submit_task_result(tk, resp) ==
    IF resp.status = "success"
    THEN [tk EXCEPT !.status = "completed", !.progress = 100]
    ELSE [tk EXCEPT !.status = "failed", !.error = resp.error]

\* worker.py 168-171, 179-182 and 112/192: the JSON bodies of POST /task.
RespSuccess == [status |-> "success", output_file |-> TRUE, error |-> NoError]
RespFail == [status |-> "fail", output_file |-> FALSE, error |-> MsgFFmpegCode]
RespError == [status |-> "error", output_file |-> FALSE, error |-> MsgHandlerError]

\* The answer reaches the loop that waits for it (lines 270-284, 478-484):
\* success with an output path goes on to the download, anything else is
\* (False, error).  An answer nobody waits for is dropped.
Respond(r, resp, keep) ==
    IF Waiting(r)
    THEN /\ tasks' = [tasks EXCEPT ![r.task] = submit_task_result(@, resp)]
         /\ IF resp.status = "success" /\ resp.output_file
            THEN /\ loops' = [loops EXCEPT ![r.loop].pc = "download"]
                 /\ pollers' = pollers
            ELSE /\ loops' = [loops EXCEPT
                       ![r.loop].pc = "settle", ![r.loop].ok = FALSE,
                       ![r.loop].msg = IF resp.status = "success"
                                       THEN MsgNoOutputPath ELSE resp.error]
                 /\ pollers' = StopPoller(r.loop, r.task, keep)
    ELSE UNCHANGED <<tasks, loops, pollers>>

\* Mutant: the size check of lines 510-511 is left out.
validate_output_file_nosize(f) ==
    IF f = "missing" THEN <<FALSE, MsgMissing>> ELSE <<TRUE, NoError>>

\* _validate_output_file lines 500-513: (valid, error_message) for a file state.
validate_output_file(f) ==
    IF f = "missing" THEN <<FALSE, MsgMissing>>
    ELSE IF f = "empty" THEN <<FALSE, MsgEmpty>>
    ELSE <<TRUE, NoError>>

\* Mutant: a server that hands every connection to a thread of its own.
can_accept_threaded(w) == TRUE

\* Worker.start / start_async: http.server.HTTPServer.serve_forever accepts and
\* handles one request at a time, in the thread that calls it.
can_accept(w) == srv[w].running = {}

\* A GET sent now is answered now: the server is between two requests and no
\* earlier connection waits in the backlog.
AnswersNow(w) == can_accept(w) /\ srv[w].backlog = <<>>

\* download_result lines 304-316, worker.py _handle_download lines 215-233 and
\* _submit_with_progress lines 486-498: GET /download, write the body to
\* task.output_file, validate it.  body is what ffmpeg left in the Worker's
\* output file; "fail" is a broken connection or a 404.  The file system is
\* shared with the rest of the machine: with gone the written file has been
\* removed by the time it is validated.
download_result(i, body, gone, keep) ==
    /\ loops[i].pc = "download"
    /\ LET t == loops[i].task
       IN IF body = "fail"
          THEN /\ ~gone
               /\ files' = files
               /\ loops' = [loops EXCEPT ![i].pc = "settle", ![i].ok = FALSE,
                                         ![i].msg = MsgDownloadFailed]
          ELSE /\ AnswersNow(Ip(i))
               /\ files' = [files EXCEPT ![t] = IF gone THEN "missing" ELSE body]
               /\ LET v == validate_output_file(files'[t])
                  IN loops' = [loops EXCEPT ![i].pc = "settle", ![i].ok = v[1],
                                            ![i].msg = v[2]]
    /\ pollers' = StopPoller(i, loops[i].task, keep)
    /\ UNCHANGED <<tasks, worker_ips, pending_tasks, result, stop_event, phase,
                   attempt_log, srv, others, caller>>

\* Mutant: the stop event is not consulted when a failed attempt is settled.
should_retry_nostop(tk) == tk.attempts < tk.max_attempts

\* Mutant: a failed attempt is always re-queued while no stop is requested.
should_retry_always(tk) == ~stop_event

\* Mutants: the comparison of line 424 off by one, either way.
should_retry_le(tk) == tk.attempts <= tk.max_attempts /\ ~stop_event
should_retry_early(tk) == tk.attempts + 1 < tk.max_attempts /\ ~stop_event

\* worker_loop line 424: whether a failed attempt is re-queued.
should_retry(tk) == tk.attempts < tk.max_attempts /\ ~stop_event

\* Mutant: the counters are read and written back without the lock, and an
\* increment that meets another one is lost.
count_result_lost(res, which) ==
    IF res.completed + res.failed >= 1 THEN res ELSE [res EXCEPT ![which] = @ + 1]

\* worker_loop lines 420-421 and 431-432: result[which] += 1 under queue_lock.
count_result(res, which) == [res EXCEPT ![which] = @ + 1]

\* Mutant: the message of the attempt is thrown away.
settle_error_unknown(error_message, tk) == MsgUnknown

\* worker_loop line 423: error_message or task.error or "Unknown error".
settle_error(error_message, tk) ==
    IF error_message # NoError THEN error_message
    ELSE IF tk.error # NoError THEN tk.error
    ELSE MsgUnknown

\* worker_loop lines 416-435: settle the attempt.
worker_loop_settle(i) ==
    /\ loops[i].pc = "settle"
    /\ LET t == loops[i].task
           err == settle_error(loops[i].msg, tasks[t])
       IN IF loops[i].ok
          THEN /\ tasks' = [tasks EXCEPT ![t].status = "completed", ![t].progress = 100]
               /\ result' = count_result(result, "completed")
               /\ pending_tasks' = pending_tasks
          ELSE IF should_retry(tasks[t])
          THEN /\ tasks' = [tasks EXCEPT ![t].error = err, ![t].status = "pending",
                                         ![t].progress = 0]
               /\ pending_tasks' = push_retry_task(pending_tasks, t)
               /\ result' = result
          ELSE /\ tasks' = [tasks EXCEPT ![t].error = err, ![t].status = "failed"]
               /\ result' = count_result(result, "failed")
               /\ pending_tasks' = pending_tasks
    /\ loops' = [loops EXCEPT ![i] = NewLoop]
    /\ attempt_log' = [attempt_log EXCEPT
          ![loops[i].task][Len(attempt_log[loops[i].task])].outcome =
              IF loops[i].ok THEN "ok" ELSE "failed"]
    /\ UNCHANGED <<worker_ips, stop_event, phase, files, pollers, srv, others, caller>>

\* dispatch_tasks lines 437-442: every worker_loop has returned.
dispatch_return ==
    /\ phase = "running"
    /\ \A i \in LoopIds : loops[i].pc = "exit"
    /\ phase' = "returned"
    /\ UNCHANGED <<tasks, worker_ips, pending_tasks, result, stop_event, loops,
                   files, pollers, attempt_log, srv, others, caller>>

\* Mutant: every answer is mirrored onto the task.
poll_update_any(tk, slot) ==
    [tk EXCEPT !.status = IF slot.status = "processing"
                          THEN "processing" ELSE "uploading",
               !.progress = slot.progress]

\* poll_progress lines 461-471: what one /status answer does to the task.
poll_update(tk, slot) ==
    IF slot.status \in {"receiving", "uploading"}
    THEN [tk EXCEPT !.status = "uploading", !.progress = slot.progress]
    ELSE IF slot.status = "processing"
    THEN [tk EXCEPT !.status = "processing", !.progress = slot.progress]
    ELSE tk

\* poll_progress lines 457-472, get_worker_status lines 318-325 and worker.py
\* _handle_status lines 241-246: one round of a poller: GET /status, answered
\* from the slot as soon as the server accepts it, mirrored onto the task.  A
\* stopped poller ends after the round it was in.
poll_progress(p) ==
    /\ p \in pollers
    /\ p.stopped \/ ~stop_event
    /\ AnswersNow(Ip(p.loop))
    /\ tasks' = [tasks EXCEPT ![p.task] = poll_update(@, srv[Ip(p.loop)].slot)]
    /\ pollers' = IF p.stopped THEN pollers \ {p} ELSE pollers
    /\ UNCHANGED <<worker_ips, pending_tasks, result, stop_event, phase, loops,
                   files, attempt_log, srv, others, caller>>

\* poll_progress line 457 and get_worker_status lines 323-325: the poller ends
\* (stop event, or a /status that times out after poll_stop was set).
poll_exit(p) ==
    /\ p \in pollers
    /\ p.stopped \/ stop_event
    /\ pollers' = pollers \ {p}
    /\ UNCHANGED <<tasks, worker_ips, pending_tasks, result, stop_event, phase,
                   loops, files, attempt_log, srv, others, caller>>

\* ------------------------------------------------------- Worker (worker.py)
\* _handle_task lines 65-99 and _execute_ffmpeg lines 126-142: the body is read
\* and parsed, the input saved, the slot set to processing, ffmpeg started.
handle_task_begin(w) ==
    /\ can_accept(w)
    /\ srv[w].backlog # <<>>
    /\ srv' = [srv EXCEPT ![w].backlog = Tail(@),
                          ![w].running = @ \cup {Head(srv[w].backlog)},
                          ![w].slot = [status |-> "processing", progress |-> 0]]
    /\ UNCHANGED <<tasks, worker_ips, pending_tasks, result, stop_event, phase,
                   loops, files, pollers, attempt_log, others, caller>>

\* _handle_task lines 107-112: reading, parsing or saving raises before ffmpeg
\* is started; HTTP 500 with {"status": "error"}, the slot is not touched.
handle_task_error(w, keep) ==
    /\ can_accept(w)
    /\ srv[w].backlog # <<>>
    /\ srv' = [srv EXCEPT ![w].backlog = Tail(@)]
    /\ Respond(Head(srv[w].backlog), RespError, keep)
    /\ UNCHANGED <<worker_ips, pending_tasks, result, stop_event, phase, files,
                   attempt_log, others, caller>>

\* _execute_ffmpeg lines 149-156: a stderr line moves the slot's progress.
execute_ffmpeg_progress(w, r, percent) ==
    /\ r \in srv[w].running
    /\ percent > srv[w].slot.progress
    /\ srv' = [srv EXCEPT ![w].slot.progress = percent]
    /\ UNCHANGED <<tasks, worker_ips, pending_tasks, result, stop_event, phase,
                   loops, files, pollers, attempt_log, others, caller>>

\* _execute_ffmpeg lines 158-192 and _handle_task lines 101-105: ffmpeg exits
\* (rc "zero" or "nonzero") or launching/reading it raises ("exception").
execute_ffmpeg_exit(w, r, rc, keep) ==
    /\ r \in srv[w].running
    /\ srv' = [srv EXCEPT
          ![w].running = @ \ {r},
          ![w].slot = IF rc = "zero" THEN [status |-> "completed", progress |-> 100]
                      ELSE [status |-> "error", progress |-> 0]]
    /\ Respond(r, CASE rc = "zero" -> RespSuccess
                    [] rc = "nonzero" -> RespFail
                    [] OTHER -> RespError, keep)
    /\ UNCHANGED <<worker_ips, pending_tasks, result, stop_event, phase, files,
                   attempt_log, others, caller>>

\* ------------------------------------------- discovery (discovery.py)
\* _handle_discovery_response line 137 and _handle_heartbeat line 152: the
\* key f"{message.get('hostname', 'unknown')}@{sender_ip}".  The ip holds no
\* "@", so the pair stands for the string.
node_key(hostname, sender_ip) ==
    <<IF hostname = NoField THEN "unknown" ELSE hostname, sender_ip>>

\* Lines 139-144 and 154-159: the record stored under the key.
node_record(message, sender_ip, t) ==
    [hostname |-> message.hostname,
     ip |-> sender_ip,
     status |-> IF message.status = NoField THEN "unknown" ELSE message.status,
     last_seen |-> t]

\* Mutant: storing a record forgets the others.
Upsert_only(nodes, key, rec) == [k \in {key} |-> rec]

\* discovered_nodes[node_key] = record
Upsert(nodes, key, rec) ==
    [k \in (DOMAIN nodes) \cup {key} |-> IF k = key THEN rec ELSE nodes[k]]

\* _handle_discovery_response lines 135-148: store the record, then call
\* on_node_discovered with it.  Result: (discovered_nodes, calls).
handle_discovery_response(nodes, calls, message, sender_ip, t) ==
    <<Upsert(nodes, node_key(message.hostname, sender_ip),
             node_record(message, sender_ip, t)),
      Append(calls, node_key(message.hostname, sender_ip))>>

\* Mutant: a heartbeat only refreshes a record that exists already.
handle_heartbeat_known_only(nodes, calls, message, sender_ip, t) ==
    IF node_key(message.hostname, sender_ip) \in DOMAIN nodes
    THEN <<Upsert(nodes, node_key(message.hostname, sender_ip),
                  node_record(message, sender_ip, t)), calls>>
    ELSE <<nodes, calls>>

\* _handle_heartbeat lines 150-159: store the record; no callback.
handle_heartbeat(nodes, calls, message, sender_ip, t) ==
    <<Upsert(nodes, node_key(message.hostname, sender_ip),
             node_record(message, sender_ip, t)),
      calls>>

\* _handle_message lines 124-133; _handle_task_complete only logs.
handle_message(nodes, calls, message, sender_ip, t) ==
    IF message.type = "discovery_response"
    THEN handle_discovery_response(nodes, calls, message, sender_ip, t)
    ELSE IF message.type = "heartbeat"
    THEN handle_heartbeat(nodes, calls, message, sender_ip, t)
    ELSE <<nodes, calls>>

\* Mutant: an exception in the loop body ends the listener thread.
listen_loop_except_ends(state) == "stopped"

\* _listen_loop lines 118-120: `except Exception` inside the while loop logs
\* the error and the loop goes on.
listen_loop_except(state) == state

\* _listen_loop lines 111-120: one datagram d from sender_ip is received.
\* data.decode() raises on bytes that are not UTF-8, json.loads on text that
\* is not JSON, message.get on JSON that is not an object.
listen_loop_receive(d, sender_ip) ==
    /\ listener = "running"
    /\ now < MaxDatagrams
    /\ now' = now + 1
    /\ last_rx' = [by |-> "listener", d |-> d, from |-> sender_ip]
    /\ IF d.kind = "object"
       THEN /\ discovered_nodes' =
                  handle_message(discovered_nodes, node_discovered_calls, d,
                                 sender_ip, now + 1)[1]
            /\ node_discovered_calls' =
                  handle_message(discovered_nodes, node_discovered_calls, d,
                                 sender_ip, now + 1)[2]
            /\ listener' = listener
       ELSE /\ listener' = listen_loop_except(listener)
            /\ UNCHANGED <<discovered_nodes, node_discovered_calls>>
    /\ UNCHANGED <<responder, responses, netv, createv, pathv, gatev, workerv,
                   popped, closev, sched>>

\* DiscoveryService.stop lines 62-68: the loop sees the stop event and ends.
discovery_stop ==
    /\ listener = "running"
    /\ listener' = "stopped"
    /\ UNCHANGED <<discovered_nodes, node_discovered_calls, responder,
                   responses, now, last_rx, netv, createv, pathv, gatev, workerv,
                   popped, closev, sched>>

\* DiscoveryResponder._listen_loop lines 299-308: the answer to a discovery
\* datagram; get_status is WorkerHandler.status (worker_app.py 708-710).
discovery_response(addr) ==
    [to |-> addr, type |-> "discovery_response", hostname |-> ResponderHost,
     ip |-> ResponderIp, status |-> srv[ResponderIp].slot]

\* Mutant: the type of the message is not looked at.
responder_handle_any(sent, d, addr) ==
    IF d.kind = "object" THEN Append(sent, discovery_response(addr)) ELSE sent

\* DiscoveryResponder._listen_loop lines 293-309: what one datagram adds to
\* the datagrams sent.  Anything that is not a JSON object raises and is
\* logged by lines 313-315.
responder_handle(sent, d, addr) ==
    IF d.kind = "object" /\ d.type = "discovery"
    THEN Append(sent, discovery_response(addr))
    ELSE sent

\* DiscoveryResponder._listen_loop lines 292-315: one datagram is received.
responder_receive(d, addr) ==
    /\ responder = "running"
    /\ now < MaxDatagrams
    /\ now' = now + 1
    /\ last_rx' = [by |-> "responder", d |-> d, from |-> addr]
    /\ responses' = responder_handle(responses, d, addr)
    /\ UNCHANGED <<discovered_nodes, node_discovered_calls, listener,
                   responder, netv, createv, pathv, gatev, workerv,
                   popped, closev, sched>>

\* DiscoveryResponder.stop lines 279-284.
responder_stop ==
    /\ responder = "running"
    /\ responder' = "stopped"
    /\ UNCHANGED <<discovered_nodes, node_discovered_calls, listener,
                   responses, now, last_rx, netv, createv, pathv, gatev, workerv,
                   popped, closev, sched>>

\* ------------------------------------------------- local subnet resolution
\* ".".join(parts[:3]) + ".": the first three octets.
subnet_prefix(ip) == <<ip[1], ip[2], ip[3]>>

\* _get_local_subnet lines 119-120 and 155: the addresses methods 1 and 3
\* turn down.
subnet_rejected(ip) == (ip[1] = 198 /\ ip[2] = 18) \/ ip[1] = 127

\* Lines 138-143: the addresses method 2 accepts.
subnet_private(ip) ==
    \/ ip[1] = 192 /\ ip[2] = 168
    \/ ip[1] = 10
    \/ ip[1] = 172 /\ ip[2] \in 16..31

\* Lines 110-123 and 148-159: the UDP-connect and the hostname method; the
\* empty tuple when the lookup raised or the address is turned down.
subnet_from_lookup(ip) ==
    IF Len(ip) = 4 /\ ~subnet_rejected(ip) THEN subnet_prefix(ip) ELSE <<>>

\* Lines 126-146: the first interface address in a private range; nothing
\* when netifaces cannot be imported.
subnet_from_ifaces(installed, ifaces) ==
    LET ok == {k \in 1..Len(ifaces) :
                 Len(ifaces[k]) = 4 /\ subnet_private(ifaces[k])}
    IN IF installed /\ ok # {}
       THEN subnet_prefix(ifaces[CHOOSE k \in ok : \A j \in ok : k <= j])
       ELSE <<>>

\* _get_local_subnet lines 107-161: the three methods in order, then the
\* default "192.168.1.".
get_local_subnet(udp, installed, ifaces, host) ==
    IF subnet_from_lookup(udp) # <<>> THEN subnet_from_lookup(udp)
    ELSE IF subnet_from_ifaces(installed, ifaces) # <<>>
    THEN subnet_from_ifaces(installed, ifaces)
    ELSE IF subnet_from_lookup(host) # <<>> THEN subnet_from_lookup(host)
    ELSE <<192, 168, 1>>

\* One call of _get_local_subnet on the machine's addresses.
get_local_subnet_call ==
    /\ ~resolved.called
    /\ resolved' = [resolved EXCEPT
          !.called = TRUE,
          !.prefix = get_local_subnet(resolved.udp, resolved.netifaces,
                                      resolved.ifaces, resolved.host)]
    /\ UNCHANGED <<polled, loaded>>

\* One call of load_config with the path of the config file, if any.
load_config_call ==
    /\ ~loaded.called
    /\ loaded' = [loaded EXCEPT !.called = TRUE,
                                !.config = load_config(loaded.env, loaded.file)]
    /\ UNCHANGED <<polled, resolved>>

\* ------------------------------------------ the poller, answer by answer
\* poll_progress lines 458-471, one round during an attempt on task t: the
\* answer of get_worker_status is mapped onto the task.
poll_round(t, answer) ==
    /\ polled.n < MaxPolls
    /\ tasks' = [tasks EXCEPT ![t] = poll_update(@, answer)]
    /\ polled' = [task |-> t, answer |-> answer, n |-> polled.n + 1]
    /\ UNCHANGED <<worker_ips, pending_tasks, result, stop_event, phase, loops,
                   files, pollers, attempt_log, srv, caller, resolved, loaded>>

\* ---------------------------------------- the pending queue, call by call
\* pop_next_task lines 379-388, one call under queue_lock: None from an
\* empty queue, otherwise the task at pop_index, which leaves the queue.
\* worker_loop line 401 then notes the worker in last_worker.
pop_next_task(worker_ip) ==
    /\ popped.n < MaxPops
    /\ \E k \in 1..Len(worker_ips) : worker_ips[k] = worker_ip
    /\ IF pending_tasks = <<>>
       THEN /\ popped' = [by |-> worker_ip, task |-> NoTask, idx |-> 0,
                          n |-> popped.n + 1]
            /\ UNCHANGED <<pending_tasks, tasks>>
       ELSE LET idx == pop_index(pending_tasks, worker_ip)
            IN /\ popped' = [by |-> worker_ip, task |-> pending_tasks[idx],
                             idx |-> idx, n |-> popped.n + 1]
               /\ pending_tasks' = RemoveAt(pending_tasks, idx)
               /\ tasks' = [tasks EXCEPT
                     ![pending_tasks[idx]].last_worker = worker_ip]
    /\ UNCHANGED <<worker_ips, result, stop_event, phase, loops, files,
                   pollers, attempt_log, srv, caller>>

\* push_retry_task lines 390-392, one call under queue_lock, for a task
\* that was popped and whose attempt failed.
push_retry_task_call(t) ==
    /\ \A k \in 1..Len(pending_tasks) : pending_tasks[k] # t
    /\ tasks[t].last_worker # NoWorker
    /\ pending_tasks' = push_retry_task(pending_tasks, t)
    /\ UNCHANGED <<tasks, worker_ips, result, stop_event, phase, loops, files,
                   pollers, attempt_log, srv, caller, popped>>

\* ------------------------------------------- one Worker, request by request
\* The answer to a request as the client gets it: HTTP code and JSON body.
Answer(op, code, status, output_file, error, rc, body, before) ==
    [op |-> op, code |-> code, status |-> status,
     output_file |-> output_file, error |-> error, rc |-> rc, body |-> body,
     before |-> before]

\* do_POST lines 56-59 and serve_forever: the server thread, between two
\* requests and not asked to shut down, takes a POST /task.  _handle_task
\* starts to read the body (lines 66-79); the slot is not written.
worker_accept_task(body) ==
    /\ wserver = "serving"
    /\ wreq.kind = "none"
    /\ wcount < MaxRequests
    /\ wreq' = [kind |-> "task", pc |-> "reading", body |-> body,
                before |-> wslot.status]
    /\ UNCHANGED <<wslot, wproc, wserver, wlog, wcount>>

\* _handle_task lines 73-87: the loop reads until Content-Length bytes have
\* come or rfile.read returns nothing (`if not chunk: break`), then what was
\* read is parsed whatever its length.  json.loads raises on a cut task
\* and on bytes that are not JSON, task[...] on a missing field.
body_parses(body) == body \in {"ok", "short_valid"}

\* _handle_task lines 73-99 and _execute_ffmpeg lines 126-141: the body has
\* been read.  If it parses, the input is saved, the slot is set to
\* processing and ffmpeg is started; if not, lines 107-112 answer HTTP 500
\* with {"status": "error", "error": ...} and the slot is as it was.
worker_read_body ==
    /\ wreq.kind = "task"
    /\ wreq.pc = "reading"
    /\ IF body_parses(wreq.body)
       THEN /\ wslot' = [status |-> "processing", progress |-> 0]
            /\ wproc' = "running"
            /\ wreq' = [wreq EXCEPT !.pc = "executing"]
            /\ UNCHANGED <<wlog, wcount>>
       ELSE /\ wlog' = Answer("task", 500, "error", FALSE, MsgHandlerError,
                              "none", wreq.body, wreq.before)
            /\ wcount' = wcount + 1
            /\ wreq' = NoReq
            /\ UNCHANGED <<wslot, wproc>>
    /\ UNCHANGED wserver

\* _execute_ffmpeg lines 148-155: a stderr line moves the progress.
worker_ffmpeg_progress(percent) ==
    /\ wproc = "running"
    /\ percent > wslot.progress
    /\ wslot' = [wslot EXCEPT !.progress = percent]
    /\ UNCHANGED <<wreq, wproc, wserver, wlog, wcount>>

\* _execute_ffmpeg line 152: percent = int(sec / duration * 100), in whole
\* seconds; int() of a non-negative quotient is its floor.
execute_ffmpeg_percent(sec, duration) == (sec * 100) \div duration

\* _execute_ffmpeg lines 149-155: one stderr line with time=sec for a video
\* of the probed duration.  A line without a time, a time of zero and an
\* unknown duration (0 here) are falsy at line 151 and move nothing.
worker_ffmpeg_line(sec, duration) ==
    /\ sec # 0
    /\ duration # 0
    /\ worker_ffmpeg_progress(execute_ffmpeg_percent(sec, duration))

\* Mutant: the slot shows completed whatever the return code.
execute_ffmpeg_result_completed(rc) ==
    [slot |-> [status |-> "completed", progress |-> 100],
     answer |-> CASE rc = "zero" -> RespSuccess
                  [] rc = "nonzero" -> RespFail
                  [] OTHER -> RespError]

\* _execute_ffmpeg lines 157-192: the slot and the returned dict for return
\* code 0, for another return code, and for an exception.
execute_ffmpeg_result(rc) ==
    [slot |-> IF rc = "zero" THEN [status |-> "completed", progress |-> 100]
              ELSE [status |-> "error", progress |-> 0],
     answer |-> CASE rc = "zero" -> RespSuccess
                  [] rc = "nonzero" -> RespFail
                  [] OTHER -> RespError]

\* _execute_ffmpeg lines 157-192 and _handle_task lines 101-105: ffmpeg has
\* exited, or starting or reading it raised; the slot is written and the
\* result is sent with HTTP 200.
worker_ffmpeg_exit(rc) ==
    /\ wreq.kind = "task"
    /\ wreq.pc = "executing"
    /\ wslot' = execute_ffmpeg_result(rc).slot
    /\ wproc' = "none"
    /\ wlog' = Answer("task", 200, execute_ffmpeg_result(rc).answer.status,
                      execute_ffmpeg_result(rc).answer.output_file,
                      execute_ffmpeg_result(rc).answer.error, rc, wreq.body,
                      wreq.before)
    /\ wcount' = wcount + 1
    /\ wreq' = NoReq
    /\ UNCHANGED wserver

\* do_GET line 210 and _handle_status lines 241-246: the server thread,
\* between two requests, answers GET /status with the slot as it is.
worker_get_status ==
    /\ wserver = "serving"
    /\ wreq.kind = "none"
    /\ wcount < MaxRequests
    /\ wlog' = Answer("status", 200, wslot.status, FALSE, NoError, "none",
                      "none", wslot.status)
    /\ wcount' = wcount + 1
    /\ UNCHANGED <<wslot, wreq, wproc, wserver>>

\* Worker.stop lines 300-308: _running = False and server.shutdown(), which
\* asks serve_forever to leave its loop and waits until it has.
worker_stop ==
    /\ wserver = "serving"
    /\ wserver' = "stopping"
    /\ UNCHANGED <<wslot, wreq, wproc, wlog, wcount>>

\* serve_forever looks at the shutdown request between two requests: the
\* handler that runs, ffmpeg included, is left to finish first.  Nothing in
\* worker.py signals the ffmpeg process or writes the slot on the way out.
worker_shutdown_done ==
    /\ wserver = "stopping"
    /\ wreq.kind = "none"
    /\ wserver' = "stopped"
    /\ UNCHANGED <<wslot, wreq, wproc, wlog, wcount>>

\* ---------------------------------------------- ControllerApp._start_transcode
\* _fetch_capabilities_async lines 737-748, started by lines 297 and 715 for
\* an ip that has no entry yet: the probe result is stored.
fetch_capabilities(ip, enc) ==
    /\ ip \notin DOMAIN node_capabilities
    /\ node_capabilities' =
          [k \in (DOMAIN node_capabilities) \cup {ip} |->
              IF k = ip THEN Capabilities(enc) ELSE node_capabilities[k]]
    /\ UNCHANGED started

\* Mutant: a Worker whose capabilities are not known yet is let through.
worker_supports_codec_unknown_ok(caps, worker_ip, codec) ==
    IF ~IsNvenc(codec) THEN TRUE
    ELSE IF worker_ip \notin DOMAIN caps THEN TRUE
    ELSE codec \in caps[worker_ip].encoders

\* _worker_supports_codec lines 463-472.
worker_supports_codec(caps, worker_ip, codec) ==
    IF ~IsNvenc(codec) THEN TRUE
    ELSE IF worker_ip \notin DOMAIN caps THEN FALSE
    ELSE codec \in caps[worker_ip].encoders

\* [ip for ip in workers if self._worker_supports_codec(ip, codec)]
supported_workers(caps, workers, codec) ==
    LET Ok(ip) == worker_supports_codec(caps, ip, codec)
    IN SelectSeq(workers, Ok)

\* _start_transcode lines 512-532: the Workers the batch is dispatched to,
\* <<>> when the method returns with a message instead.  mode is "auto" or
\* "single", selected the content of node_var ("" when empty).
target_workers(caps, ips, mode, selected, codec) ==
    LET discovered == get_discovered_worker_ips(ips)
        workers == IF discovered = <<>> THEN <<>>
                   ELSE IF mode = "single"
                        THEN (IF selected = "" THEN <<>> ELSE <<selected>>)
                        ELSE discovered
    IN IF IsNvenc(codec) THEN supported_workers(caps, workers, codec)
       ELSE workers

\* _start_transcode lines 496-568 with files selected and valid settings:
\* it returns at once while a batch runs (497-499) or when no Worker is
\* left (514-516, 521-523, 530-535); otherwise the batch is dispatched to
\* target_workers.
start_transcode(ips, mode, selected, codec) ==
    /\ ~started.running
    /\ LET target == target_workers(node_capabilities, ips, mode, selected,
                                    codec)
       IN started' =
             IF target = <<>>
             THEN [running |-> FALSE, outcome |-> "refused", codec |-> codec,
                   target |-> <<>>]
             ELSE [running |-> TRUE, outcome |-> "dispatched",
                   codec |-> codec, target |-> target]
    /\ UNCHANGED node_capabilities

\* _on_dispatch_finished / _on_dispatch_error lines 580-596.
on_dispatch_finished ==
    /\ started.running
    /\ started' = [started EXCEPT !.running = FALSE]
    /\ UNCHANGED node_capabilities

\* ------------------------------------------------ Controller.build_output_path
\* Mutant: a collision is looked for once only.
build_output_path_once(existing, name) ==
    IF OutputPath(name, 1) \in existing
    THEN OutputPath(name, 2)
    ELSE OutputPath(name, 1)

\* build_output_path lines 206-211, from the loop test on: `output` is the
\* candidate of number index - 1; while it exists the next one is tried.
RECURSIVE build_output_path_loop(_, _, _)
build_output_path_loop(existing, name, index) ==
    IF OutputPath(name, index - 1) \in existing
    THEN build_output_path_loop(existing, name, index + 1)
    ELSE OutputPath(name, index - 1)

\* build_output_path lines 200-211: output = name + suffix + ext, index = 2.
build_output_path(existing, name) ==
    build_output_path_loop(existing, name, 2)

\* A call of build_output_path for the input file `name`.
build_output_path_call(name) ==
    /\ build_calls < MaxBuilds
    /\ build_calls' = build_calls + 1
    /\ last_output' = build_output_path(fs, name)
    /\ UNCHANGED fs

\* The file at path p comes into existence: the transcode of the task
\* writes its output, or something else creates a file of that name.
create_file(p) ==
    /\ p \notin fs
    /\ fs' = fs \cup {p}
    /\ UNCHANGED <<last_output, build_calls>>

\* The file at path p is deleted.
remove_file(p) ==
    /\ p \in fs
    /\ fs' = fs \ {p}
    /\ UNCHANGED <<last_output, build_calls>>

\* ------------------------------------------------------ Controller.create_task
\* Mutant: the lock is never found taken.
lock_free_always(holder) == TRUE

\* threading.Lock: it can be acquired when no thread holds it.
lock_free(holder) == holder = NoThread

\* create_task line 187: `with self._task_lock:` acquires the lock.
create_task_enter(c) ==
    /\ creators[c].pc = "idle"
    /\ creators[c].done < MaxCreates
    /\ lock_free(task_lock)
    /\ task_lock' = c
    /\ creators' = [creators EXCEPT ![c].pc = "count"]
    /\ UNCHANGED <<task_counter, created>>

\* create_task lines 188-190: the counter is incremented and read for the id.
\* The id task_N is represented by N.
create_task_count(c) ==
    /\ creators[c].pc = "count"
    /\ task_counter' = task_counter + 1
    /\ creators' = [creators EXCEPT ![c].pc = "append",
                                    ![c].id = task_counter + 1]
    /\ UNCHANGED <<task_lock, created>>

\* create_task lines 196-198: the task is appended, the with block releases
\* the lock and the task is returned.
create_task_append(c) ==
    /\ creators[c].pc = "append"
    /\ created' = Append(created, creators[c].id)
    /\ task_lock' = IF task_lock = c THEN NoThread ELSE task_lock
    /\ creators' = [creators EXCEPT ![c].pc = "idle",
                                    ![c].done = creators[c].done + 1]
    /\ UNCHANGED task_counter

\* ------------------------------------------------ discovery over the network
\* A datagram in flight: the host and port it is addressed to, the address
\* (ip, port) of the socket that sent it, and what it holds.
Packet(id, dst, port, src, d) ==
    [id |-> id, dst |-> dst, port |-> port, src |-> src, d |-> d]

\* json.dumps(...).encode() then json.loads(data.decode()): the object that
\* arrives.  The status dict is represented by its "status" entry.
Wire(type, hostname, status) ==
    [kind |-> "object", type |-> type, hostname |-> hostname,
     status |-> status]

\* The hosts with a socket bound to the discovery port: a broadcast reaches
\* each of them.
DiscoveryHosts == {ControllerIp, ResponderIp}

\* broadcast_discovery lines 70-84: a new socket, not bound, sends
\* {"type": "discovery"} to <broadcast>:discovery_port and is closed when
\* the with block ends.  The sender address is (ControllerIp, e).
broadcast_discovery(e) ==
    /\ broadcasts < MaxBroadcasts
    /\ broadcasts' = broadcasts + 1
    /\ net' = net \cup
          {Packet(<<"discovery", broadcasts + 1>>, h, DiscoveryPort,
                  [ip |-> ControllerIp, port |-> e],
                  Wire("discovery", NoField, NoField)) : h \in DiscoveryHosts}
    /\ UNCHANGED <<discovered_nodes, node_discovered_calls, listener,
                   responder, responses, now, last_rx, heartbeat, heartbeats,
                   createv, pathv, gatev, workerv,
                   popped, closev, sched>>

\* HeartbeatService._send_heartbeat lines 222-238: a new socket broadcasts a
\* heartbeat with the hostname and get_status() to the discovery port.
send_heartbeat(e) ==
    /\ heartbeat = "running"
    /\ heartbeats < MaxHeartbeats
    /\ heartbeats' = heartbeats + 1
    /\ net' = net \cup
          {Packet(<<"heartbeat", heartbeats + 1>>, h, DiscoveryPort,
                  [ip |-> ResponderIp, port |-> e],
                  Wire("heartbeat", ResponderHost,
                       srv[ResponderIp].slot.status)) : h \in DiscoveryHosts}
    /\ UNCHANGED <<discovered_nodes, node_discovered_calls, listener,
                   responder, responses, now, last_rx, broadcasts, heartbeat,
                   createv, pathv, gatev, workerv,
                   popped, closev, sched>>

\* The datagrams that s.sendto(response, addr) of line 309 puts on the
\* network: one for each response appended by this step, addressed to the
\* sender address of the datagram answered.
Sent(before, after) ==
    {Packet(<<"response", k>>, after[k].to.ip, after[k].to.port,
            [ip |-> ResponderIp, port |-> DiscoveryPort],
            Wire(after[k].type, after[k].hostname, after[k].status.status)) :
        k \in (Len(before) + 1)..Len(after)}

\* A datagram addressed to the discovery port of the Worker arrives at the
\* responder's socket (lines 289-295).
responder_deliver(p) ==
    /\ p \in net
    /\ p.dst = ResponderIp /\ p.port = DiscoveryPort
    /\ responder = "running"
    /\ now' = now + 1
    /\ last_rx' = [by |-> "responder", d |-> p.d, from |-> p.src]
    /\ responses' = responder_handle(responses, p.d, p.src)
    /\ net' = (net \ {p}) \cup Sent(responses, responses')
    /\ UNCHANGED <<discovered_nodes, node_discovered_calls, listener,
                   responder, broadcasts, heartbeat, heartbeats, createv, pathv, gatev, workerv,
                   popped, closev, sched>>

\* A datagram addressed to the discovery port of the Controller arrives at
\* the listener's socket (lines 107-114).
listener_deliver(p) ==
    /\ p \in net
    /\ p.dst = ControllerIp /\ p.port = DiscoveryPort
    /\ listener = "running"
    /\ now' = now + 1
    /\ last_rx' = [by |-> "listener", d |-> p.d, from |-> p.src.ip]
    /\ discovered_nodes' =
          handle_message(discovered_nodes, node_discovered_calls, p.d,
                         p.src.ip, now + 1)[1]
    /\ node_discovered_calls' =
          handle_message(discovered_nodes, node_discovered_calls, p.d,
                         p.src.ip, now + 1)[2]
    /\ net' = net \ {p}
    /\ UNCHANGED <<listener, responder, responses, broadcasts, heartbeat,
                   heartbeats, createv, pathv, gatev, workerv,
                   popped, closev, sched>>

\* A datagram addressed to a port no socket reads: the socket of
\* broadcast_discovery was never bound to the discovery port, nothing calls
\* recvfrom on it and the with block of lines 73-82 closes it.  The datagram is lost.
net_drop(p) ==
    /\ p \in net
    /\ p.port # DiscoveryPort
    /\ net' = net \ {p}
    /\ UNCHANGED <<discovered_nodes, node_discovered_calls, listener,
                   responder, responses, now, last_rx, broadcasts, heartbeat,
                   heartbeats, createv, pathv, gatev, workerv,
                   popped, closev, sched>>


\* ================================================================ claims
\* No worker_loop holds t: it is queued, not yet popped, or settled.
Settled(t) == \A i \in LoopIds : ~(Holding(i) /\ loops[i].task = t)
InQueue(t) == \E k \in 1..Len(pending_tasks) : pending_tasks[k] = t
\* The task has been counted in result.completed by its worker_loop.
CountedCompleted(t) ==
    t \in Dispatched /\ tasks[t].status = "completed" /\ Settled(t)
LastOutcome(t) == attempt_log[t][Len(attempt_log[t])].outcome

\* C1 (as stated): whenever dispatch_tasks has returned, with the stop event
\* set at any moment or never, completed + failed = total.
C1_CountsAddUp ==
    phase = "returned" => result.completed + result.failed = result.total

\* C1 (amended): when dispatch_tasks has returned, completed + failed plus the
\* tasks still in the pending queue equals total; the queue is empty, and
\* completed + failed = total, when the stop event was never set.
C1_CountsAddUpWithPending ==
    phase = "returned" =>
        /\ result.completed + result.failed + Len(pending_tasks) = result.total
        /\ ~stop_event => result.completed + result.failed = result.total

\* A stopped batch returned with one task done and one never attempted.
C1_Witness ==
    /\ phase = "returned"
    /\ stop_event
    /\ result.completed = 1
    /\ Len(pending_tasks) = 1
    /\ tasks[pending_tasks[1]].attempts = 0

\* C2: with no stop signal every task is attempted until its first success or
\* until max_attempts attempts: no attempt follows a success, a task whose
\* k-th attempt is the first to succeed ends completed with attempts = k, a
\* task whose attempts all fail ends failed with attempts = max_attempts, and
\* when dispatch_tasks returns every task has ended one way or the other.
C2_RetryUntilSuccessOrExhausted ==
    ~stop_event =>
        \A t \in Dispatched :
            LET log == attempt_log[t]
                n == Len(log)
            IN /\ n = tasks[t].attempts
               /\ n <= tasks[t].max_attempts
               /\ \A k \in 1..(n - 1) : log[k].outcome = "failed"
               /\ (n > 0 /\ log[n].outcome = "ok") =>
                     tasks[t].status = "completed" /\ Settled(t)
               /\ (n > 0 /\ log[n].outcome = "failed") =>
                     /\ Settled(t)
                     /\ n < tasks[t].max_attempts =>
                           tasks[t].status = "pending" /\ InQueue(t)
                     /\ n = tasks[t].max_attempts => tasks[t].status = "failed"
               /\ phase = "returned" =>
                     /\ n > 0
                     /\ log[n].outcome \in {"ok", "failed"}
                     /\ tasks[t].status \in {"completed", "failed"}

\* A batch returned without stop: one task completed on its second attempt,
\* another failed after its only attempt.
C2_Witness ==
    /\ phase = "returned"
    /\ ~stop_event
    /\ \E t, u \in Dispatched :
          /\ tasks[t].status = "completed" /\ tasks[t].attempts = 2
          /\ tasks[u].status = "failed" /\ tasks[u].attempts = 1
          /\ tasks[u].max_attempts = 1

\* C3: two workers A and B, one task, max_attempts = 2: when the first attempt
\* ran on A and failed, the second attempt is issued to B.
C3_RetryGoesToOtherWorker ==
    ( /\ worker_ips = <<"A", "B">>
      /\ result.total = 1
      /\ tasks[1].max_attempts = 2
      /\ Len(attempt_log[1]) = 2
      /\ attempt_log[1][1].worker = "A" )
    => attempt_log[1][2].worker = "B"

\* C4: attempts <= max_attempts for every task in every reachable state.
C4_AttemptsBounded ==
    \A t \in TaskIds : tasks[t].attempts <= tasks[t].max_attempts

\* A task that used up its two attempts and ended failed.
C4_Witness ==
    \E t \in Dispatched :
        /\ tasks[t].max_attempts = 2
        /\ tasks[t].attempts = 2
        /\ tasks[t].status = "failed"
        /\ Settled(t)

\* C5: in every reachable state a task's progress is 100 if and only if its
\* status is completed.
C5_ProgressHundredIffCompleted ==
    \A t \in TaskIds : (tasks[t].progress = 100) <=> (tasks[t].status = "completed")

\* C6: in every reachable state a task's worker is null if and only if its
\* status is pending.
C6_WorkerNullIffPending ==
    \A t \in TaskIds : (tasks[t].worker = NoWorker) <=> (tasks[t].status = "pending")

\* C7: once a task's status is completed or failed, none of its fields
\* changes again in the run.
C7_TerminalIsFinal ==
    [][\A t \in TaskIds :
          tasks[t].status \in {"completed", "failed"} => tasks'[t] = tasks[t]]_vars

\* C8: a task is counted completed only if its downloaded output file exists
\* and is not empty; an attempt whose output is missing or empty is a failed
\* attempt carrying the matching message, and it takes the retry path:
\* re-queued while attempts < max_attempts and no stop, failed otherwise.
C8_CompletedOnlyIfValidated ==
    /\ \A t \in TaskIds : CountedCompleted(t) => files[t] = "valid"
    /\ result.completed = Cardinality({t \in TaskIds : CountedCompleted(t)})
    /\ \A i \in LoopIds :
          loops[i].pc = "settle" =>
             /\ loops[i].ok => files[loops[i].task] = "valid"
             /\ loops[i].msg = MsgMissing =>
                   ~loops[i].ok /\ files[loops[i].task] = "missing"
             /\ loops[i].msg = MsgEmpty =>
                   ~loops[i].ok /\ files[loops[i].task] = "empty"
    /\ \A t \in Dispatched :
          (Settled(t) /\ tasks[t].error \in {MsgMissing, MsgEmpty}) =>
             /\ LastOutcome(t) = "failed"
             /\ tasks[t].status \in {"pending", "failed"}
             /\ tasks[t].status = "pending" =>
                   InQueue(t) /\ tasks[t].attempts < tasks[t].max_attempts
             /\ tasks[t].status = "failed" =>
                   tasks[t].attempts = tasks[t].max_attempts \/ stop_event

\* One task is back in the queue after an empty output, another one is
\* counted completed with a valid file.
C8_Witness ==
    \E t, u \in Dispatched :
        /\ tasks[t].error = MsgEmpty
        /\ tasks[t].status = "pending"
        /\ InQueue(t)
        /\ CountedCompleted(u)
        /\ files[u] = "valid"

\* C9: no Worker executes two tasks at once: at most one request is being
\* executed by a Worker's server, the slot is processing exactly while one
\* is, and the Controller has at most one attempt in flight per Worker ip.
C9_OneTaskPerWorker ==
    \A w \in Workers :
        /\ Cardinality(srv[w].running) <= 1
        /\ SlotBusy(w) <=> srv[w].running # {}
        /\ Cardinality({i \in LoopIds : Holding(i) /\ Ip(i) = w}) <= 1

\* Both Workers execute a task at the same moment, and a second POST waits
\* in A's backlog while A executes.
C9_Witness ==
    /\ srv["A"].running # {}
    /\ srv["B"].running # {}
    /\ srv["A"].backlog # <<>>

\* C10: a POST /task that arrived while the slot was receiving or processing
\* is refused; it is never accepted and executed later.
C10_BusyPostNeverExecuted ==
    \A w \in Workers : \A r \in srv[w].running : ~r.busy

\* C11: a GET /status issued while a task is processing is answered at once
\* from the current snapshot, without waiting for the running task.
C11_StatusReadNotBlocked ==
    \A w \in Workers : srv[w].slot.status = "processing" => AnswersNow(w)

RECURSIVE SumField(_, _, _)
\* Sum of f[t].<attempts or max_attempts> over the tasks 1..n.
SumField(f, n, which) ==
    IF n = 0 THEN 0
    ELSE (IF which = "attempts" THEN f[n].attempts ELSE f[n].max_attempts)
         + SumField(f, n - 1, which)

\* C12: dispatch_tasks returns when every attempt terminates; the attempts of
\* a run never number more than the sum of max_attempts; and a run in which
\* every attempt failed returns with every task failed, the tasks that a stop
\* request left in the queue excepted (none when no stop was requested).
C12_DispatchReturns ==
    /\ (phase = "running") ~> (phase = "returned")
    /\ [](SumField(tasks, result.total, "attempts")
             <= SumField(tasks, result.total, "max_attempts"))
    /\ []((/\ phase = "returned"
           /\ \A t \in Dispatched : \A k \in 1..Len(attempt_log[t]) :
                 attempt_log[t][k].outcome # "ok")
          => (/\ \A t \in Dispatched :
                    \/ tasks[t].status = "failed"
                    \/ stop_event /\ InQueue(t) /\ tasks[t].status = "pending"
              /\ ~stop_event => result.failed = result.total))

\* A run of two tasks returned after all three attempts it was allowed failed.
C12_Witness ==
    /\ phase = "returned"
    /\ ~stop_event
    /\ result.total = 2
    /\ result.failed = 2
    /\ SumField(tasks, 2, "attempts") = 3

\* C13 (as stated): a dispatch_tasks call with an empty worker list is
\* rejected with the no-workers error, whatever the task list.
C13_NoWorkersRejected ==
    (called_with.made /\ called_with.ips = <<>>) => phase = "rejected"

\* C13 (amended): a call with an empty worker list and at least one task is
\* rejected before anything is reset or started; with an empty task list as
\* well it is not rejected: it returns the zero counts.
C13_NoWorkersRejectedIfTasks ==
    (called_with.made /\ called_with.ips = <<>>) =>
        /\ loops = <<>> /\ pending_tasks = <<>> /\ ~callback_fired
        /\ \A t \in TaskIds : tasks[t] = NewTask(tasks[t].max_attempts)
        /\ called_with.n >= 1 => phase = "rejected"
        /\ called_with.n = 0 =>
              /\ phase = "returned"
              /\ result = [total |-> 0, completed |-> 0, failed |-> 0]

\* A call with two tasks and no worker was rejected.
C13_Witness ==
    /\ called_with = Call(2, <<>>)
    /\ phase = "rejected"

\* C14: a dispatch_tasks call with an empty task list returns the zero counts
\* at once: no worker loop is started, no Worker is contacted, no callback
\* fires, no task is touched.
C14_EmptyTaskList ==
    (called_with.made /\ called_with.n = 0) =>
        /\ phase = "returned"
        /\ result = [total |-> 0, completed |-> 0, failed |-> 0]
        /\ loops = <<>>
        /\ pollers = {}
        /\ ~callback_fired
        /\ \A w \in Workers : srv[w] = NewServer
        /\ \A t \in TaskIds :
              tasks[t] = NewTask(tasks[t].max_attempts) /\ attempt_log[t] = <<>>

\* A call with no task and two workers has returned.
C14_Witness ==
    /\ called_with = Call(0, <<"A", "B">>)
    /\ phase = "returned"

\* C15: an attempt that has failed and is settled while the stop event is set
\* is not re-queued: the task becomes failed and is counted in failed, also
\* when attempts < max_attempts.
C15_NoRetryUnderStop ==
    [][\A i \in LoopIds :
          ( /\ stop_event
            /\ loops[i].pc = "settle"
            /\ ~loops[i].ok
            /\ loops'[i].pc # "settle" )
          => /\ tasks'[loops[i].task].status = "failed"
             /\ tasks'[loops[i].task].attempts = tasks[loops[i].task].attempts
             /\ result'.failed = result.failed + 1
             /\ pending_tasks' = pending_tasks]_vars

\* A task ended failed under stop with an attempt left.
C15_Witness ==
    \E t \in Dispatched :
        /\ stop_event
        /\ Settled(t)
        /\ tasks[t].status = "failed"
        /\ tasks[t].attempts < tasks[t].max_attempts
        /\ result.failed >= 1

ListenerStep == last_rx'.by = "listener" /\ now' = now + 1
ResponderStep == last_rx'.by = "responder" /\ now' = now + 1

\* C17: a discovery_response or a heartbeat from sender ip with hostname H
\* creates or overwrites the record keyed H@ip with (hostname, ip, status,
\* fresh last_seen), adds or removes no other key and changes no other
\* record; the two message types have the same effect on the records.
C17_UpsertExactlyOneRecord ==
    [][( /\ ListenerStep
         /\ last_rx'.d.kind = "object"
         /\ last_rx'.d.type \in {"discovery_response", "heartbeat"}
         /\ last_rx'.d.hostname # NoField )
       => LET d == last_rx'.d
              key == <<d.hostname, last_rx'.from>>
          IN /\ DOMAIN discovered_nodes' = (DOMAIN discovered_nodes) \cup {key}
             /\ discovered_nodes'[key].hostname = d.hostname
             /\ discovered_nodes'[key].ip = last_rx'.from
             /\ discovered_nodes'[key].status =
                   (IF d.status = NoField THEN "unknown" ELSE d.status)
             /\ discovered_nodes'[key].last_seen = now'
             /\ \A k \in DOMAIN discovered_nodes :
                   /\ discovered_nodes[k].last_seen < now'
                   /\ k # key => discovered_nodes'[k] = discovered_nodes[k]]_vars

\* A heartbeat from A has just created the record of h1@A next to the older
\* record of h1@B.
C17_Witness ==
    /\ last_rx.by = "listener"
    /\ last_rx.d.type = "heartbeat"
    /\ last_rx.from = "A"
    /\ DOMAIN discovered_nodes = {<<"h1", "A">>, <<"h1", "B">>}
    /\ discovered_nodes[<<"h1", "A">>].last_seen = now
    /\ discovered_nodes[<<"h1", "B">>].last_seen < now

\* Number of on_node_discovered calls made for a node key.
CallsFor(key) ==
    Cardinality({k \in 1..Len(node_discovered_calls) :
                    node_discovered_calls[k] = key})

\* C18: on_node_discovered has been invoked exactly once for every node key
\* that has been seen, whatever the type of the first message, and never for
\* another key.
C18_CallbackOncePerKey ==
    \A h \in {"h1", "unknown"}, ip \in Workers :
        CallsFor(<<h, ip>>) =
            (IF <<h, ip>> \in DOMAIN discovered_nodes THEN 1 ELSE 0)

\* A datagram the listener cannot use: not UTF-8, not JSON, not an object, or
\* an object whose type is missing or not one of the listener's.
Malformed(d) ==
    \/ d.kind # "object"
    \/ d.type \notin {"discovery_response", "heartbeat", "task_complete"}

\* C19: a malformed datagram changes no node record, fires no callback and
\* leaves the listener running; a message that comes after it is processed.
C19_MalformedIgnored ==
    /\ [][(ListenerStep /\ Malformed(last_rx'.d))
          => /\ discovered_nodes' = discovered_nodes
             /\ node_discovered_calls' = node_discovered_calls
             /\ listener' = "running"]_vars
    /\ [][( /\ last_rx.by = "listener" /\ Malformed(last_rx.d)
            /\ ListenerStep
            /\ last_rx'.d.kind = "object"
            /\ last_rx'.d.type \in {"discovery_response", "heartbeat"} )
          => /\ node_key(last_rx'.d.hostname, last_rx'.from)
                   \in DOMAIN discovered_nodes'
             /\ discovered_nodes'[node_key(last_rx'.d.hostname,
                                           last_rx'.from)].last_seen = now']_vars

\* The listener has just received text that is not JSON; it runs, and the
\* record it made before is as it was.
C19_Witness ==
    /\ last_rx.by = "listener"
    /\ last_rx.d.kind = "not_json"
    /\ listener = "running"
    /\ now = 2
    /\ DOMAIN discovered_nodes = {<<"h1", "A">>}
    /\ discovered_nodes[<<"h1", "A">>].last_seen = 1
    /\ Len(node_discovered_calls) = 1

WorkerKnown ==
    /\ node_key(ResponderHost, ResponderIp) \in DOMAIN discovered_nodes
    /\ discovered_nodes[node_key(ResponderHost, ResponderIp)].status
          \notin {NoField, "unknown"}

\* C21: with the Worker's responder running and every datagram delivered, a
\* broadcast of the Controller is followed by the record of that Worker,
\* with a status, in discovered_nodes.
C21_BroadcastFindsWorker ==
    (broadcasts > 0 /\ responder = "running") ~> WorkerKnown

\* Number of create_task calls that have returned, over the first n threads.
RECURSIVE CallsDone(_)
CallsDone(n) == IF n = 0 THEN 0 ELSE creators[n].done + CallsDone(n - 1)

\* C22: whatever the interleaving of create_task calls, after n calls
\* Controller.tasks holds the ids task_1 .. task_n in increasing order, so
\* the ids are pairwise distinct and dense.
C22_TaskIdsDenseMonotonic ==
    /\ Len(created) = CallsDone(NumCreators)
    /\ \A k \in 1..Len(created) : created[k] = k

\* Three threads have each created tasks; one call holds the lock while
\* another thread, back from its first call, is about to call again.
C22_Witness ==
    /\ \A c \in Creators : creators[c].done >= 1
    /\ Len(created) >= 4
    /\ \E c \in Creators : creators[c].pc = "append"
    /\ \E c \in Creators : creators[c].pc = "idle" /\ creators[c].done = 1

\* C23: the path build_output_path returns does not exist at that moment and
\* is the first free one of name+suffix.ext, name+suffix_2.ext, ...; a
\* second call, made when the first result has been created, returns a
\* different path.
C23_FirstFreePath ==
    [][build_calls' = build_calls + 1
       => /\ last_output' \notin fs
          /\ last_output'.index >= 1
          /\ \A k \in 1..(last_output'.index - 1) :
                OutputPath(last_output'.name, k) \in fs
          /\ last_output \in fs => last_output' # last_output]_vars

\* The second call returned clip + suffix + _3 + ext: the first result,
\* clip + suffix + _2 + ext, had been created next to clip + suffix + ext.
C23_Witness ==
    /\ build_calls = 2
    /\ last_output = OutputPath("clip", 3)
    /\ fs = {OutputPath("clip", 1), OutputPath("clip", 2)}

C25_ReceivingBeforeProcessing ==
    /\ []((wreq.pc = "reading" /\ wreq.before = "idle")
             => wslot.status = "receiving")
    /\ [][wslot.status = "idle" => wslot'.status # "processing"]_vars

\* The slot statuses of a task that has ended.
Ended == {"completed", "error", "stopped"}

\* C26: a slot left in completed, error or stopped by a task that ended is
\* idle after the next GET /status, and a POST /task accepted next finds it
\* idle (or takes it to receiving).
C26_EndedSlotReturnsToIdle ==
    /\ [][(wslot.status \in Ended /\ wcount' = wcount + 1
             /\ wlog'.op = "status") => wslot'.status = "idle"]_vars
    /\ [][(wslot.status \in Ended /\ wreq.kind = "none"
             /\ wreq'.kind = "task")
           => wslot'.status \in {"idle", "receiving"}]_vars

\* The step answers a POST /task whose ffmpeg run ended with rc.
FfmpegEnds(rc) ==
    /\ wcount' = wcount + 1
    /\ wlog'.op = "task"
    /\ wlog'.rc = rc

\* C27: when ffmpeg exits with code 0 the slot is completed with progress
\* 100 and the answer is {status: success, output_file}; with another code
\* the slot is error and the answer {status: fail, error: "FFmpeg returned
\* code N"}; when launching or reading raised the slot is error and the
\* answer {status: error}.
C27_FfmpegOutcomeMapping ==
    /\ [][FfmpegEnds("zero")
           => /\ wslot' = [status |-> "completed", progress |-> 100]
              /\ wlog'.status = "success"
              /\ wlog'.output_file]_vars
    /\ [][FfmpegEnds("nonzero")
           => /\ wslot'.status = "error"
              /\ wlog'.status = "fail"
              /\ wlog'.error = MsgFFmpegCode]_vars
    /\ [][FfmpegEnds("exception")
           => /\ wslot'.status = "error"
              /\ wlog'.status = "error"]_vars

\* A task has just ended with a non-zero code; it was accepted with the
\* slot left completed by the task before it.
C27_Witness ==
    /\ wlog.op = "task"
    /\ wlog.rc = "nonzero"
    /\ wlog.before = "completed"
    /\ wlog.status = "fail"
    /\ wslot = [status |-> "error", progress |-> 0]
    /\ wcount = 2

\* C28: once the Worker is asked to stop while a task is processing, the
\* ffmpeg process is ended and the slot leaves processing, whether or not
\* ffmpeg would finish on its own.
C28_StopEndsProcessing ==
    (wserver # "serving" /\ wslot.status = "processing")
    ~> (wslot.status # "processing" /\ wproc = "none")

\* C29: a POST /task whose body is shorter than Content-Length, is not JSON
\* or lacks a required field is answered with an HTTP 4xx/5xx JSON body
\* that has an error field, and the slot keeps the status it had before the
\* request.
C29_BadBodyRefused ==
    [][(wcount' = wcount + 1 /\ wlog'.op = "task" /\ wlog'.body # "ok")
       => /\ wlog'.code >= 400
          /\ wlog'.error # NoError
          /\ wslot'.status = wlog'.before]_vars

\* The positions of the queue whose task did not last run on worker_ip.
RanElsewhere(worker_ip) ==
    {k \in 1..Len(pending_tasks) :
        tasks[pending_tasks[k]].last_worker # worker_ip}

\* The least element of a non-empty set of positions.
First(S) == CHOOSE m \in S : \A k \in S : m <= k

\* C30: pop_next_task(worker_ip) returns null iff the queue is empty; with
\* more than one worker it removes and returns the first pending task whose
\* last_worker differs from worker_ip, the head if there is none or with a
\* single worker; push_retry_task appends at the tail.  So with several
\* workers a worker gets a task it last ran only when no pending task last
\* ran elsewhere.
C30_PopNextTask ==
    /\ [][\A w \in Workers :
            (popped'.n = popped.n + 1 /\ popped'.by = w)
            => /\ (popped'.task = NoTask) <=> (pending_tasks = <<>>)
               /\ pending_tasks = <<>> => pending_tasks' = pending_tasks
               /\ pending_tasks # <<>> =>
                     LET idx == IF Len(worker_ips) > 1 /\ RanElsewhere(w) # {}
                                THEN First(RanElsewhere(w)) ELSE 1
                     IN /\ popped'.task = pending_tasks[idx]
                        /\ pending_tasks' =
                              SubSeq(pending_tasks, 1, idx - 1)
                              \o SubSeq(pending_tasks, idx + 1,
                                        Len(pending_tasks))
                        /\ (Len(worker_ips) > 1
                            /\ tasks[pending_tasks[idx]].last_worker = w)
                           => RanElsewhere(w) = {}]_vars
    /\ [][(popped' = popped /\ pending_tasks' # pending_tasks)
           => \E t \in TaskIds : pending_tasks' = pending_tasks \o <<t>>]_vars

\* With two workers, A passed over the head of the queue, which it ran last,
\* and took the second task; the head is still queued.
C30_Witness ==
    /\ popped.by = "A"
    /\ popped.idx = 2
    /\ Len(worker_ips) = 2
    /\ Len(pending_tasks) = 1
    /\ tasks[pending_tasks[1]].last_worker = "A"

\* C31: once _submit_with_progress has returned for an attempt, the poller
\* spawned for that attempt is gone: no poller is alive with its poll_stop
\* set, and the last round of such a poller writes nothing to the task.
C31_PollerEndsWithAttempt ==
    /\ [](\A p \in pollers : ~p.stopped)
    /\ [][\A p \in pollers :
            (p.stopped /\ p \notin pollers') => tasks'[p.task] = tasks[p.task]]_vars

\* C32: a round of the poller maps the Worker's answer onto the task of its
\* attempt: receiving or uploading gives status uploading, processing gives
\* status processing, both with the Worker's progress; any other answer
\* leaves the task's status and progress as they were.  Nothing else of the
\* task and no other task is written.
C32_PollerStatusMapping ==
    [][polled'.n = polled.n + 1 =>
         LET t == polled'.task
             a == polled'.answer
         IN /\ a.status \in {"receiving", "uploading"} =>
                  /\ tasks'[t].status = "uploading"
                  /\ tasks'[t].progress = a.progress
            /\ a.status = "processing" =>
                  /\ tasks'[t].status = "processing"
                  /\ tasks'[t].progress = a.progress
            /\ a.status \in {"idle", "completed", "error", "stopped", "unknown"} =>
                  /\ tasks'[t].status = tasks[t].status
                  /\ tasks'[t].progress = tasks[t].progress
            /\ tasks' = [tasks EXCEPT ![t].status = tasks'[t].status,
                                      ![t].progress = tasks'[t].progress]]_vars

\* Task 1 was polled up to processing at 50, and the Worker's later answer
\* "completed" left it there.
C32_Witness ==
    /\ polled.n = 2
    /\ polled.task = 1
    /\ polled.answer.status = "completed"
    /\ tasks[1].status = "processing"
    /\ tasks[1].progress = 50

\* C33: while the Worker's slot shows processing its progress is within
\* 0..99 and changes only to the percent computed from a stderr line;
\* progress 100 is shown only together with status completed.
C33_ProcessingBelowHundred ==
    /\ [](wslot.status = "processing" => wslot.progress \in 0..99)
    /\ [](wslot.progress = 100 => wslot.status = "completed")
    /\ [][(wslot.status = "processing" /\ wslot'.status = "processing"
             /\ wslot'.progress # wslot.progress)
           => \E sec \in Seconds, duration \in Durations \ {0} :
                 wslot'.progress = execute_ffmpeg_percent(sec, duration)]_vars

\* The messages an attempt of _submit_with_progress can fail with.
AttemptErrors ==
    {MsgException, MsgFFmpegCode, MsgHandlerError, MsgNoOutputPath,
     MsgDownloadFailed, MsgMissing, MsgEmpty}

\* C34: every way an attempt fails reaches worker_loop as one (False, message)
\* with a message; the task that is settled from it, re-queued or failed,
\* carries exactly that message as its error, so a failed task has a non-null
\* error, that of its last attempt; and when a run that was not stopped has
\* returned, no dispatched task is left in error, uploading or processing.
C34_FailureCarriesLastError ==
    /\ [](\A i \in LoopIds :
            (loops[i].pc = "settle" /\ ~loops[i].ok)
            => loops[i].msg \in AttemptErrors)
    /\ [][\A i \in LoopIds :
            (loops[i].pc = "settle" /\ ~loops[i].ok /\ loops'[i].pc # "settle")
            => /\ tasks'[loops[i].task].error = loops[i].msg
               /\ tasks'[loops[i].task].status \in {"pending", "failed"}]_vars
    /\ [](\A t \in TaskIds :
            tasks[t].status = "failed" => tasks[t].error \in AttemptErrors)
    /\ []((phase = "returned" /\ ~stop_event)
            => \A t \in Dispatched :
                  tasks[t].status \notin {"error", "uploading", "processing"})

\* A run without stop has returned with task 1 failed on its second attempt,
\* whose download failed, and that is the error the task carries.
C34_Witness ==
    /\ phase = "returned"
    /\ ~stop_event
    /\ tasks[1].status = "failed"
    /\ tasks[1].attempts = 2
    /\ tasks[1].error = MsgDownloadFailed
    /\ LastOutcome(1) = "failed"

\* C35: node records are never removed: whatever is received, and however
\* long a node has been silent, every key of discovered_nodes is still a key
\* after the step; and the only callback the service makes is
\* on_node_discovered, so a node is never reported lost.
C35_NodesNeverRemoved ==
    [][/\ DOMAIN discovered_nodes \subseteq DOMAIN discovered_nodes'
       /\ \/ node_discovered_calls' = node_discovered_calls
          \/ \E key \in DOMAIN discovered_nodes' :
                node_discovered_calls' = Append(node_discovered_calls, key)]_vars

\* The record of h1@A was stored by the first datagram; two more datagrams
\* have arrived since, none of them from h1@A, and the record is still there
\* next to another one.
C35_Witness ==
    /\ now = 3
    /\ <<"h1", "A">> \in DOMAIN discovered_nodes
    /\ discovered_nodes[<<"h1", "A">>].last_seen = 1
    /\ Cardinality(DOMAIN discovered_nodes) = 2

\* C36: the prefix _get_local_subnet returns never comes from an address in
\* 127.0.0.0/8 or in 198.18.0.0/15 (198.18.x.x and 198.19.x.x): when the
\* UDP-connect or the hostname method finds such an address the result is
\* that of a later method or the default.
C36_SubnetNeverLoopbackOrBenchmark ==
    resolved.called =>
        /\ resolved.prefix[1] # 127
        /\ ~(resolved.prefix[1] = 198 /\ resolved.prefix[2] \in {18, 19})

\* C37: after load_config every setting has the value of the config file if
\* the file sets the key, else the value of its TC_* environment variable if
\* that is set, else the built-in default.
C37_FileOverEnvOverDefault ==
    loaded.called =>
        \A k \in ConfigKeys :
            loaded.config[k] =
                IF loaded.file.exists /\ k \in loaded.file.keys
                THEN ConfigFileValue(k)
                ELSE IF k \in loaded.env THEN ConfigEnvValue(k)
                ELSE ConfigDefault(k)

\* C38: in every state of a dispatch run each dispatched task is in exactly
\* one place: once in the pending queue, or held by exactly one worker loop
\* whose attempt is in flight, or terminal (completed or failed, neither
\* queued nor held).  So no task is attempted by two loops at once and the
\* queue holds no task twice.
C38_TaskInOnePlace ==
    phase \in {"running", "returned"} =>
        \A t \in Dispatched :
            LET queued == Cardinality({k \in 1..Len(pending_tasks) :
                                          pending_tasks[k] = t})
                held == Cardinality({i \in LoopIds :
                                        Holding(i) /\ loops[i].task = t})
                terminal == IF /\ tasks[t].status \in {"completed", "failed"}
                               /\ queued = 0
                               /\ held = 0
                            THEN 1 ELSE 0
            IN queued + held + terminal = 1

\* With two loops running, task 1 is back in the queue after a failed first
\* attempt while task 2 is held by a loop that waits for its POST.
C38_Witness ==
    /\ phase = "running"
    /\ Len(worker_ips) = 2
    /\ pending_tasks = <<1>>
    /\ tasks[1].attempts = 1
    /\ \E i \in LoopIds : loops[i].pc = "posted" /\ loops[i].task = 2

\* C39: while no stop is requested no task is stranded: whenever the pending
\* queue is not empty some worker loop has not exited, and the queue is
\* emptied again, every queued or re-queued task being popped, although the
\* loops that once found the queue empty are gone for good.
C39_NoTaskStranded ==
    /\ []((phase = "running" /\ ~stop_event /\ pending_tasks # <<>>)
            => \E i \in LoopIds : loops[i].pc # "exit")
    /\ (phase = "running" /\ pending_tasks # <<>>)
          ~> (pending_tasks = <<>> \/ stop_event)

\* One of two loops found the queue empty and has exited; the other has
\* since re-queued the task it held after a failed attempt and loops on.
C39_Witness ==
    /\ phase = "running"
    /\ ~stop_event
    /\ Len(worker_ips) = 2
    /\ pending_tasks # <<>>
    /\ \E i, j \in LoopIds :
          /\ loops[i].pc = "exit"
          /\ loops[j].pc = "loop"
          /\ tasks[pending_tasks[1]].attempts = 1
          /\ tasks[pending_tasks[1]].last_worker = Ip(j)

\* C40: when dispatch_tasks has returned, result.completed is the number of
\* dispatched tasks whose status is completed and result.failed the number of
\* those whose status is failed, however the worker loops interleaved.
C40_CountersMatchStatuses ==
    phase = "returned" =>
        /\ result.completed =
              Cardinality({t \in Dispatched : tasks[t].status = "completed"})
        /\ result.failed =
              Cardinality({t \in Dispatched : tasks[t].status = "failed"})

\* A run on two Workers has returned with both tasks completed, one by each
\* worker loop.
C40_Witness ==
    /\ phase = "returned"
    /\ Len(worker_ips) = 2
    /\ result.completed = 2
    /\ tasks[1].worker # tasks[2].worker

\* ---------------------------------------------------------------- Spec
Next ==
    \/ \E n \in 1..NumTasks, ips \in DiscoveredIpLists :
          dispatch_tasks(n, get_discovered_worker_ips(ips))
    \/ \E ips \in DiscoveredIpLists :
          dispatch_tasks_empty(get_discovered_worker_ips(ips))
    \/ \E n \in 1..NumTasks : dispatch_tasks_no_workers(n)
    \/ set_stop
    \/ \E i \in LoopIds : worker_loop_check(i)
    \/ \E i \in LoopIds : worker_loop_exit(i)
    \/ \E i \in LoopIds, sent \in BOOLEAN : worker_loop_pop(i, sent)
    \/ \E i \in LoopIds, keep \in BOOLEAN : submit_task_raise(i, keep)
    \/ \E i \in LoopIds, body \in {"valid", "empty", "fail"}, gone \in BOOLEAN,
          keep \in BOOLEAN :
             download_result(i, body, gone /\ body = "valid", keep)
    \/ \E i \in LoopIds : worker_loop_settle(i)
    \/ dispatch_return
    \/ \E p \in pollers : poll_progress(p)
    \/ \E p \in pollers : poll_exit(p)
    \/ \E w \in Workers : handle_task_begin(w)
    \/ \E w \in Workers, keep \in BOOLEAN : handle_task_error(w, keep)
    \/ \E w \in Workers : \E r \in srv[w].running, p \in Percents :
          execute_ffmpeg_progress(w, r, p)
    \/ \E w \in Workers : \E r \in srv[w].running :
          \E rc \in {"zero", "nonzero", "exception"}, keep \in BOOLEAN :
             execute_ffmpeg_exit(w, r, rc, keep)

Spec == Init /\ [][Next]_vars

\* The steps of the threads and processes of a run: worker loops, pollers, the
\* Workers' server threads and their ffmpeg processes.  Starting a run and
\* requesting a stop are the caller's steps.
RunStep ==
    \/ \E i \in LoopIds : worker_loop_check(i)
    \/ \E i \in LoopIds : worker_loop_exit(i)
    \/ \E i \in LoopIds, sent \in BOOLEAN : worker_loop_pop(i, sent)
    \/ \E i \in LoopIds, keep \in BOOLEAN : submit_task_raise(i, keep)
    \/ \E i \in LoopIds, body \in {"valid", "empty", "fail"}, gone \in BOOLEAN,
          keep \in BOOLEAN :
             download_result(i, body, gone /\ body = "valid", keep)
    \/ \E i \in LoopIds : worker_loop_settle(i)
    \/ dispatch_return
    \/ \E p \in pollers : poll_progress(p)
    \/ \E p \in pollers : poll_exit(p)
    \/ \E w \in Workers : handle_task_begin(w)
    \/ \E w \in Workers, keep \in BOOLEAN : handle_task_error(w, keep)
    \/ \E w \in Workers : \E r \in srv[w].running, p \in Percents :
          execute_ffmpeg_progress(w, r, p)
    \/ \E w \in Workers : \E r \in srv[w].running :
          \E rc \in {"zero", "nonzero", "exception"}, keep \in BOOLEAN :
             execute_ffmpeg_exit(w, r, rc, keep)

\* Discovery on its own: no batch is dispatched, and the Worker's slot is in
\* one of the states it has between two tasks.
DiscInit ==
    /\ tasks = [t \in TaskIds |-> NewTask(1)]
    /\ worker_ips = <<>>
    /\ pending_tasks = <<>>
    /\ result = [total |-> 0, completed |-> 0, failed |-> 0]
    /\ stop_event = FALSE
    /\ phase = "created"
    /\ loops = <<>>
    /\ files = [t \in TaskIds |-> "missing"]
    /\ pollers = {}
    /\ attempt_log = [t \in TaskIds |-> <<>>]
    /\ srv \in {[w \in Workers |-> [NewServer EXCEPT !.slot = sl]] :
                  sl \in {IdleSlot, [status |-> "completed", progress |-> 100],
                          [status |-> "error", progress |-> 0]}}
    /\ called_with = NoCall
    /\ callback_fired = FALSE
    /\ discovered_nodes = <<>>
    /\ node_discovered_calls = <<>>
    /\ listener = "running"
    /\ responder = "running"
    /\ responses = <<>>
    /\ now = 0
    /\ last_rx = NoRx
    /\ NetIdle
    /\ CreateIdle
    /\ PathIdle
    /\ GateIdle
    /\ WorkerIdle
    /\ popped = NoPop
    /\ CloseIdle

DiscNext ==
    \/ \E d \in Datagrams, ip \in Workers : listen_loop_receive(d, ip)
    \/ discovery_stop
    \/ \E d \in ResponderDatagrams, addr \in Addrs : responder_receive(d, addr)
    \/ responder_stop

DiscSpec == DiscInit /\ [][DiscNext]_vars

\* Discovery over the network: the Controller's listener and broadcaster, one
\* Worker with its responder and, started or not, its heartbeater.
NetInit ==
    /\ tasks = [t \in TaskIds |-> NewTask(1)]
    /\ worker_ips = <<>>
    /\ pending_tasks = <<>>
    /\ result = [total |-> 0, completed |-> 0, failed |-> 0]
    /\ stop_event = FALSE
    /\ phase = "created"
    /\ loops = <<>>
    /\ files = [t \in TaskIds |-> "missing"]
    /\ pollers = {}
    /\ attempt_log = [t \in TaskIds |-> <<>>]
    /\ srv \in {[w \in Workers |-> [NewServer EXCEPT !.slot = sl]] :
                  sl \in {IdleSlot, [status |-> "completed", progress |-> 100],
                          [status |-> "error", progress |-> 0]}}
    /\ called_with = NoCall
    /\ callback_fired = FALSE
    /\ discovered_nodes = <<>>
    /\ node_discovered_calls = <<>>
    /\ listener = "running"
    /\ responder = "running"
    /\ responses = <<>>
    /\ now = 0
    /\ last_rx = NoRx
    /\ net = {}
    /\ broadcasts = 0
    /\ heartbeat \in {"running", "stopped"}
    /\ heartbeats = 0
    /\ CreateIdle
    /\ PathIdle
    /\ GateIdle
    /\ WorkerIdle
    /\ popped = NoPop
    /\ CloseIdle

\* What the network and the receiving threads do on their own.
NetStep ==
    \/ \E p \in net : responder_deliver(p)
    \/ \E p \in net : listener_deliver(p)
    \/ \E p \in net : net_drop(p)

NetNext ==
    \/ \E e \in EphemeralPorts : broadcast_discovery(e)
    \/ \E e \in EphemeralPorts : send_heartbeat(e)
    \/ NetStep

\* Every datagram is delivered, and a running heartbeater sends.
NetSpec ==
    /\ NetInit
    /\ [][NetNext]_vars
    /\ WF_vars(NetStep)
    /\ WF_vars(\E e \in EphemeralPorts : send_heartbeat(e))

\* Threads that call create_task on one Controller, nothing else going on.
CreateInit ==
    /\ DiscInit
    /\ srv = [w \in Workers |-> NewServer]

CreateNext ==
    \/ \E c \in Creators :
          create_task_enter(c) /\ UNCHANGED <<sched, discv, netv, pathv, gatev, workerv, popped, closev>>
    \/ \E c \in Creators :
          create_task_count(c) /\ UNCHANGED <<sched, discv, netv, pathv, gatev, workerv, popped, closev>>
    \/ \E c \in Creators :
          create_task_append(c) /\ UNCHANGED <<sched, discv, netv, pathv, gatev, workerv, popped, closev>>

CreateSpec == CreateInit /\ [][CreateNext]_vars

\* build_output_path against a directory whose files come and go.
PathInit ==
    /\ CreateInit
    /\ fs = {}

PathNext ==
    \/ \E n \in InputNames :
          build_output_path_call(n) /\ UNCHANGED <<sched, discv, netv, createv, gatev, workerv, popped, closev>>
    \/ \E p \in CandidatePaths :
          create_file(p) /\ UNCHANGED <<sched, discv, netv, createv, gatev, workerv, popped, closev>>
    \/ \E p \in CandidatePaths :
          remove_file(p) /\ UNCHANGED <<sched, discv, netv, createv, gatev, workerv, popped, closev>>

PathSpec == PathInit /\ [][PathNext]_vars

\* The GUI Controller: capability probes come in and batches are started.
GateInit == CreateInit

GateNext ==
    \/ \E ip \in Workers, enc \in EncoderSets :
          fetch_capabilities(ip, enc)
          /\ UNCHANGED <<sched, discv, netv, createv, pathv, workerv, popped, closev>>
    \/ \E ips \in DiscoveredIpLists, mode \in {"auto", "single"},
          selected \in Workers \cup {""}, codec \in CODEC_OPTIONS :
          start_transcode(ips, mode, selected, codec)
          /\ UNCHANGED <<sched, discv, netv, createv, pathv, workerv, popped, closev>>
    \/ on_dispatch_finished
          /\ UNCHANGED <<sched, discv, netv, createv, pathv, workerv, popped, closev>>

GateSpec == GateInit /\ [][GateNext]_vars

\* One Worker and the requests it gets.  The server thread goes on with what
\* it has begun; nothing makes ffmpeg end, a client send or a user stop.
WorkerInit == CreateInit

WorkerServe ==
    \/ worker_read_body /\ UNCHANGED <<sched, discv, netv, createv, pathv, gatev, popped, closev>>
    \/ worker_shutdown_done
          /\ UNCHANGED <<sched, discv, netv, createv, pathv, gatev, popped, closev>>

WorkerNext ==
    \/ \E body \in Bodies :
          worker_accept_task(body)
          /\ UNCHANGED <<sched, discv, netv, createv, pathv, gatev, popped, closev>>
    \/ \E sec \in Seconds, duration \in Durations :
          worker_ffmpeg_line(sec, duration)
          /\ UNCHANGED <<sched, discv, netv, createv, pathv, gatev, popped, closev>>
    \/ \E rc \in {"zero", "nonzero", "exception"} :
          worker_ffmpeg_exit(rc)
          /\ UNCHANGED <<sched, discv, netv, createv, pathv, gatev, popped, closev>>
    \/ worker_get_status
          /\ UNCHANGED <<sched, discv, netv, createv, pathv, gatev, popped, closev>>
    \/ worker_stop /\ UNCHANGED <<sched, discv, netv, createv, pathv, gatev, popped, closev>>
    \/ WorkerServe

WorkerSpec == WorkerInit /\ [][WorkerNext]_vars /\ WF_vars(WorkerServe)

\* The pending queue on its own: any queue of distinct tasks, each last run
\* by nobody or by some worker, with one or two workers.
PopInit ==
    /\ tasks \in [TaskIds -> [status : {"pending"}, worker : {NoWorker},
                             progress : {0}, error : {NoError},
                             attempts : {0}, max_attempts : {1},
                             last_worker : Workers \cup {NoWorker}]]
    /\ worker_ips \in {<<"A">>, <<"A", "B">>}
    /\ pending_tasks \in {<<>>, <<1>>, <<2>>, <<1, 2>>, <<2, 1>>}
    /\ result = [total |-> 0, completed |-> 0, failed |-> 0]
    /\ stop_event = FALSE
    /\ phase = "created"
    /\ loops = <<>>
    /\ files = [t \in TaskIds |-> "missing"]
    /\ pollers = {}
    /\ attempt_log = [t \in TaskIds |-> <<>>]
    /\ srv = [w \in Workers |-> NewServer]
    /\ called_with = NoCall
    /\ callback_fired = FALSE
    /\ discovered_nodes = <<>>
    /\ node_discovered_calls = <<>>
    /\ listener = "running"
    /\ responder = "running"
    /\ responses = <<>>
    /\ now = 0
    /\ last_rx = NoRx
    /\ NetIdle
    /\ CreateIdle
    /\ PathIdle
    /\ GateIdle
    /\ WorkerIdle
    /\ popped = NoPop
    /\ CloseIdle

\* The poller on its own: every task is in an attempt on worker A, as
\* worker_loop lines 400-404 leave it, and any answer may come.
PollInit ==
    /\ tasks = [t \in TaskIds |->
                  [NewTask(1) EXCEPT !.worker = "A", !.last_worker = "A",
                                     !.attempts = 1, !.status = "uploading"]]
    /\ worker_ips = <<"A">>
    /\ pending_tasks = <<>>
    /\ result = [total |-> NumTasks, completed |-> 0, failed |-> 0]
    /\ stop_event = FALSE
    /\ phase = "running"
    /\ loops = <<>>
    /\ files = [t \in TaskIds |-> "missing"]
    /\ pollers = {}
    /\ attempt_log = [t \in TaskIds |-> <<>>]
    /\ srv = [w \in Workers |-> NewServer]
    /\ called_with = NoCall
    /\ callback_fired = FALSE
    /\ discovered_nodes = <<>>
    /\ node_discovered_calls = <<>>
    /\ listener = "running"
    /\ responder = "running"
    /\ responses = <<>>
    /\ now = 0
    /\ last_rx = NoRx
    /\ NetIdle
    /\ CreateIdle
    /\ PathIdle
    /\ GateIdle
    /\ WorkerIdle
    /\ popped = NoPop
    /\ CloseIdle

PollNext ==
    \E t \in TaskIds, answer \in StatusAnswers :
        poll_round(t, answer)
        /\ UNCHANGED <<discv, netv, createv, pathv, gatev, workerv, popped>>

PollSpec == PollInit /\ [][PollNext]_vars

\* A Controller and a Worker that have been constructed and do nothing: no
\* dispatch run, no datagram, no request.
NothingRuns ==
    /\ tasks = [t \in TaskIds |-> NewTask(1)]
    /\ worker_ips = <<>>
    /\ pending_tasks = <<>>
    /\ result = [total |-> 0, completed |-> 0, failed |-> 0]
    /\ stop_event = FALSE
    /\ phase = "created"
    /\ loops = <<>>
    /\ files = [t \in TaskIds |-> "missing"]
    /\ pollers = {}
    /\ attempt_log = [t \in TaskIds |-> <<>>]
    /\ srv = [w \in Workers |-> NewServer]
    /\ called_with = NoCall
    /\ callback_fired = FALSE
    /\ discovered_nodes = <<>>
    /\ node_discovered_calls = <<>>
    /\ listener = "running"
    /\ responder = "running"
    /\ responses = <<>>
    /\ now = 0
    /\ last_rx = NoRx
    /\ NetIdle
    /\ CreateIdle
    /\ PathIdle
    /\ GateIdle
    /\ WorkerIdle
    /\ popped = NoPop

\* Local subnet resolution on its own: a machine with any of the addresses
\* behind each method.
SubnetInit ==
    /\ NothingRuns
    /\ polled = NoPoll
    /\ resolved \in [udp : LocalIps, netifaces : BOOLEAN,
                      ifaces : {<<>>} \cup {<<ip>> : ip \in LocalIps \ {<<>>}},
                      host : LocalIps, called : {FALSE}, prefix : {<<>>}]
    /\ loaded = NoLoad

SubnetNext ==
    get_local_subnet_call
    /\ UNCHANGED <<sched, discv, netv, createv, pathv, gatev, workerv, popped>>

SubnetSpec == SubnetInit /\ [][SubnetNext]_vars

\* Configuration on its own: any set of TC_* variables in the environment
\* and no config file or one that sets any set of keys.
ConfigInit ==
    /\ NothingRuns
    /\ polled = NoPoll
    /\ resolved = NoResolve
    /\ \E env \in SUBSET ConfigKeys, exists \in BOOLEAN, keys \in SUBSET ConfigKeys :
          /\ ~exists => keys = {}
          /\ loaded = [env |-> env, file |-> [exists |-> exists, keys |-> keys],
                       called |-> FALSE, config |-> from_env(env)]

ConfigNext ==
    load_config_call
    /\ UNCHANGED <<sched, discv, netv, createv, pathv, gatev, workerv, popped>>

ConfigSpec == ConfigInit /\ [][ConfigNext]_vars

PopNext ==
    \/ \E w \in Workers :
          pop_next_task(w)
          /\ UNCHANGED <<discv, netv, createv, pathv, gatev, workerv, closev>>
    \/ \E t \in TaskIds :
          push_retry_task_call(t)
          /\ UNCHANGED <<discv, netv, createv, pathv, gatev, workerv, closev>>

PopSpec == PopInit /\ [][PopNext]_vars

\* The batches whose first task may be retried to the limit.
FairInit == Init /\ tasks[1].max_attempts = MaxAttemptsBound

\* The run as the liveness properties follow it: the caller's calls and the
\* steps of the run's threads, with every poller joined within the second
\* that line 498 gives it.  A poller that outlives its attempt reads /status
\* once more and ends; it is followed under Spec.
FairNext ==
    \/ \E n \in 1..NumTasks, ips \in DiscoveredIpLists :
          dispatch_tasks(n, get_discovered_worker_ips(ips))
    \/ \E ips \in DiscoveredIpLists :
          dispatch_tasks_empty(get_discovered_worker_ips(ips))
    \/ \E n \in 1..NumTasks : dispatch_tasks_no_workers(n)
    \/ set_stop
    \/ \E i \in LoopIds : worker_loop_check(i)
    \/ \E i \in LoopIds : worker_loop_exit(i)
    \/ \E i \in LoopIds, sent \in BOOLEAN : worker_loop_pop(i, sent)
    \/ \E i \in LoopIds : submit_task_raise(i, FALSE)
    \/ \E i \in LoopIds, body \in {"valid", "empty", "fail"}, gone \in BOOLEAN :
          download_result(i, body, gone /\ body = "valid", FALSE)
    \/ \E i \in LoopIds : worker_loop_settle(i)
    \/ dispatch_return
    \/ \E p \in pollers : poll_progress(p)
    \/ \E p \in pollers : poll_exit(p)
    \/ \E w \in Workers : handle_task_begin(w)
    \/ \E w \in Workers : handle_task_error(w, FALSE)
    \/ \E w \in Workers : \E r \in srv[w].running, p \in Percents :
          execute_ffmpeg_progress(w, r, p)
    \/ \E w \in Workers : \E r \in srv[w].running :
          \E rc \in {"zero", "nonzero", "exception"} :
             execute_ffmpeg_exit(w, r, rc, FALSE)

\* Every thread that can take a step eventually takes one: every attempt
\* terminates.
FairSpec == FairInit /\ [][FairNext]_vars /\ WF_vars(RunStep)

====
